---- MODULE Spec2Model ----
(***************************************************************************)
(* Model of pydoctor's value colorizer                                     *)
(* (pydoctor/epydoc/markup/_pyval_repr.py).                                *)
(*                                                                         *)
(* Text is a sequence of one-character strings.  A fragment of the result  *)
(* list is a record [kind, text, tag]:                                     *)
(*   kind "Text"    nodes.Text(text)                                       *)
(*   kind "inline"  nodes.inline('', text, classes=[tag])                  *)
(*   kind "link"    obj_reference('', text, refuid=text)                   *)
(*   kind "shared"  one of the class-level node objects of PyvalColorizer  *)
(*                  (tag names it); its text lives in the variable         *)
(*                  `shared`, because every result list that holds it      *)
(*                  holds the same object.                                 *)
(* A Python exception in flight is the field exc of the colorizer state:   *)
(* every operation passes a state with exc # "none" through unchanged.     *)
(***************************************************************************)
EXTENDS Integers, Sequences, FiniteSets, TLC

\* ---------------------------------------------------------------- bounds
MaxInt == 3
MaxWidth == 5
MaxLines == 3
MaxMinScore == 2

\* ------------------------------------------------------------ characters
NL == "\n"
BS == "\\"
SQ == "'"
CHR_8629 == "<-'"

None == <<>>
Some(x) == <<x>>

Max2(a, b) == IF a >= b THEN a ELSE b
Min2(a, b) == IF a <= b THEN a ELSE b

\* variant of PySliceFrom: the character at k is skipped
PySliceFrom_Skip(s, k) ==
    LET start == IF k >= 0 THEN Min2(k, Len(s)) ELSE Max2(Len(s) + k, 0)
    IN SubSeq(s, start + 2, Len(s))

\* s[k:] of Python, k may be negative
PySliceFrom(s, k) ==
    LET start == IF k >= 0 THEN Min2(k, Len(s)) ELSE Max2(Len(s) + k, 0)
    IN SubSeq(s, start + 1, Len(s))

\* s[:k] of Python, k may be negative
PySliceTo(s, k) ==
    LET stop == IF k >= 0 THEN Min2(k, Len(s)) ELSE Max2(Len(s) + k, 0)
    IN SubSeq(s, 1, stop)

\* s[:-trim] of Python for trim >= 0 (s[:-0] is s[:0], the empty string)
PyDropLast(s, trim) == PySliceTo(s, IF trim = 0 THEN 0 ELSE 0 - trim)

\* s.split('\n')
RECURSIVE SplitNL(_)
SplitNL(s) ==
    IF \A i \in 1..Len(s) : s[i] # NL THEN <<s>>
    ELSE LET i == CHOOSE j \in 1..Len(s) :
                      s[j] = NL /\ \A h \in 1..(j-1) : s[h] # NL
         IN <<SubSeq(s, 1, i-1)>> \o SplitNL(SubSeq(s, i+1, Len(s)))

Digit(d) ==
    CASE d = 0 -> "0" [] d = 1 -> "1" [] d = 2 -> "2" [] d = 3 -> "3"
      [] d = 4 -> "4" [] d = 5 -> "5" [] d = 6 -> "6" [] d = 7 -> "7"
      [] d = 8 -> "8" [] d = 9 -> "9"

\* str(n) of a Python int
RECURSIVE IntStr(_)
IntStr(n) ==
    IF n < 0 THEN <<"-">> \o IntStr(0 - n)
    ELSE IF n < 10 THEN <<Digit(n)>>
    ELSE IntStr(n \div 10) \o <<Digit(n % 10)>>

\* ------------------------------------------------- tags and shared nodes
GROUP_TAG == "None"
COMMA_TAG == "None"
COLON_TAG == "None"
CONST_TAG == "None"
NUMBER_TAG == "None"
QUOTE_TAG == "variable-quote"
STRING_TAG == "variable-string"
LINK_TAG == "variable-link"
ELLIPSIS_TAG == "variable-ellipsis"
LINEWRAP_TAG == "variable-linewrap"
UNKNOWN_TAG == "variable-unknown"
RE_CHAR_TAG == "None"
RE_GROUP_TAG == "re-group"
RE_REF_TAG == "re-ref"
RE_OP_TAG == "re-op"
RE_FLAGS_TAG == "re-flags"

Shared(name) == [kind |-> "shared", text |-> <<>>, tag |-> name]
ELLIPSIS == Shared("ELLIPSIS")
LINEWRAP == Shared("LINEWRAP")
UNKNOWN_REPR == Shared("UNKNOWN_REPR")
WORD_BREAK_OPPORTUNITY == Shared("WORD_BREAK_OPPORTUNITY")
NEWLINE == Shared("NEWLINE")

\* the shared nodes that have a Text child, with the text they are built with
SharedInit ==
    [ELLIPSIS |-> <<".", ".", ".">>,
     LINEWRAP |-> <<CHR_8629>>,
     UNKNOWN_REPR |-> <<"?", "?">>]

\* len(node.children) >= 1 for an Element: wbr() and newline() are inline
\* elements without children, and a TextElement built with the text '' gets
\* no Text child
HasChild(frag) ==
    IF frag.kind = "shared" THEN frag.tag \in DOMAIN SharedInit
    ELSE frag.text # <<>>

TextNode(segment) == [kind |-> "Text", text |-> segment, tag |-> "None"]
InlineNode(segment, css_class) == [kind |-> "inline", text |-> segment, tag |-> css_class]
obj_reference(segment) == [kind |-> "link", text |-> segment, tag |-> "None"]

\* ------------------------------------------------------ _ColorizerState
ColorizerState ==
    [result |-> <<>>, charpos |-> 0, lineno |-> 1, linebreakok |-> TRUE,
     score |-> 0, exc |-> "none"]

mark(state) ==
    [length |-> Len(state.result), charpos |-> state.charpos,
     lineno |-> state.lineno, linebreakok |-> state.linebreakok,
     score |-> state.score]

\* variant of restore: the fragments added since the mark stay
restore_KeepResult(state, m) ==
    [state EXCEPT !.charpos = m.charpos, !.lineno = m.lineno,
                  !.linebreakok = m.linebreakok, !.score = m.score]

\* variant of restore: the score is not reset
restore_KeepScore(state, m) ==
    [state EXCEPT !.charpos = m.charpos, !.lineno = m.lineno,
                  !.linebreakok = m.linebreakok,
                  !.result = SubSeq(state.result, 1, m.length)]

restore(state, m) ==
    [state EXCEPT !.charpos = m.charpos, !.lineno = m.lineno,
                  !.linebreakok = m.linebreakok, !.score = m.score,
                  !.result = SubSeq(state.result, 1, m.length)]

Raise(state, e) == [state EXCEPT !.exc = e]
Append1(state, frag) == [state EXCEPT !.result = Append(@, frag)]

\* ---------------------------------------------------------------- _output
\* self is the configuration [linelen, maxlines, linebreakok]; linelen None
\* is NoLimit.
NoLimit == -1

\* variant of Fits: the fit test lets one character too many on the line
Fits_OneMore(self, state, segment_len, link) ==
    \/ self.linelen = NoLimit
    \/ state.charpos + segment_len <= self.linelen + 1
    \/ link

\* variant of Fits: a link is measured like any other text
Fits_NoLink(self, state, segment_len, link) ==
    \/ self.linelen = NoLimit
    \/ state.charpos + segment_len <= self.linelen

Fits(self, state, segment_len, link) ==
    \/ self.linelen = NoLimit
    \/ state.charpos + segment_len <= self.linelen
    \/ link

OutputElement(segment, css_class, link) ==
    IF css_class # "None" \/ link
    THEN IF link THEN obj_reference(segment) ELSE InlineNode(segment, css_class)
    ELSE TextNode(segment)

\* variant of NewlineSignal: linebreakok is not looked at
NewlineSignal_Unchecked(self, state) ==
    IF state.lineno + 1 > self.maxlines THEN "_Maxlines" ELSE "none"

\* variant of NewlineSignal: one line more than maxlines is granted
NewlineSignal_OneMore(self, state) ==
    IF state.lineno + 1 > self.maxlines + 1 THEN "_Maxlines"
    ELSE IF ~state.linebreakok THEN "_Linebreak"
    ELSE "none"

\* variant of NewlineSignal: a new line is always granted
NewlineSignal_Never(self, state) == "none"

\* variant of NewlineSignal: linebreakok is looked at before the line count
NewlineSignal_BreakFirst(self, state) ==
    IF ~state.linebreakok THEN "_Linebreak"
    ELSE IF state.lineno + 1 > self.maxlines THEN "_Maxlines"
    ELSE "none"

\* the checks made before a new line is started
NewlineSignal(self, state) ==
    IF state.lineno + 1 > self.maxlines THEN "_Maxlines"
    ELSE IF ~state.linebreakok THEN "_Linebreak"
    ELSE "none"

\* one iteration of the loop of _output, at index i (1-based) of the segments
\* list: the state and the list it leaves (the body of OutputLoop, for the
\* runs that take the loop one iteration at a time)
OutputIter(self, segments, i, css_class, state, link) ==
    IF i > 1 /\ NewlineSignal(self, state) # "none"
    THEN [state |-> Raise(state, NewlineSignal(self, state)), segments |-> segments]
    ELSE
      LET st1 == IF i > 1
                 THEN [state EXCEPT !.result = Append(@, NEWLINE),
                                    !.lineno = @ + 1, !.charpos = 0]
                 ELSE state
          segment == segments[i]
          segment_len == Len(segment)
      IN IF Fits(self, st1, segment_len, link)
         THEN [state |-> [st1 EXCEPT !.charpos = @ + segment_len,
                              !.result = Append(@, OutputElement(segment, css_class, link))],
               segments |-> segments]
         ELSE LET split == self.linelen - st1.charpos
                  rest == PySliceFrom(segment, split)
                  head == PySliceTo(segment, split)
                  element == IF css_class # "None" THEN InlineNode(head, css_class)
                             ELSE TextNode(head)
              IN [state |-> [st1 EXCEPT !.result = @ \o <<element, LINEWRAP>>],
                  segments |-> SubSeq(segments, 1, i) \o <<rest>>
                               \o SubSeq(segments, i + 1, Len(segments))]

\* the loop of _output from index i (1-based) of the segments list
RECURSIVE OutputLoop(_, _, _, _, _, _)
OutputLoop(self, segments, i, css_class, state, link) ==
    IF i > Len(segments) THEN state
    ELSE IF i > 1 /\ NewlineSignal(self, state) # "none"
    THEN Raise(state, NewlineSignal(self, state))
    ELSE
      LET st1 == IF i > 1
                 THEN [state EXCEPT !.result = Append(@, NEWLINE),
                                    !.lineno = @ + 1, !.charpos = 0]
                 ELSE state
          segment == segments[i]
          segment_len == Len(segment)
      IN IF Fits(self, st1, segment_len, link)
         THEN OutputLoop(self, segments, i + 1, css_class,
                  [st1 EXCEPT !.charpos = @ + segment_len,
                              !.result = Append(@, OutputElement(segment, css_class, link))],
                  link)
         ELSE LET split == self.linelen - st1.charpos
                  rest == PySliceFrom(segment, split)
                  head == PySliceTo(segment, split)
                  element == IF css_class # "None" THEN InlineNode(head, css_class)
                             ELSE TextNode(head)
                  segs2 == SubSeq(segments, 1, i) \o <<rest>>
                           \o SubSeq(segments, i + 1, Len(segments))
              IN OutputLoop(self, segs2, i + 1, css_class,
                     [st1 EXCEPT !.result = @ \o <<element, LINEWRAP>>], link)

_output(self, s, css_class, state, link) ==
    IF state.exc # "none" THEN state
    ELSE OutputLoop(self, SplitNL(s), 1, css_class, state, link)

\* ------------------------------------------------------------ values
\* A Python value is a record whose field k is its exact type.
PyConst(name) == [k |-> "const", name |-> name]
PyInt(n) == [k |-> "int", n |-> n]
PyStr(s) == [k |-> "str", s |-> s]
PyList(elts) == [k |-> "list", elts |-> elts]
PyTuple(elts) == [k |-> "tuple", elts |-> elts]
PyDict(items) == [k |-> "dict", items |-> items]
\* a value of no specially handled type; repr is None when repr() raises
PyObject(repr) == [k |-> "object", repr |-> repr]
PyPattern(pattern, flags) == [k |-> "re.Pattern", pattern |-> pattern, flags |-> flags]
PyEllipsis == [k |-> "ellipsis"]
AstConstant(value) == [k |-> "ast.Constant", value |-> value]
AstName(id) == [k |-> "ast.Name", id |-> id]
AstAttribute(value, attr) == [k |-> "ast.Attribute", value |-> value, attr |-> attr]
AstCall(func, args, keywords) ==
    [k |-> "ast.Call", func |-> func, args |-> args, keywords |-> keywords]
AstKeyword(arg, value) == [k |-> "ast.keyword", arg |-> arg, value |-> value]
AstList(elts) == [k |-> "ast.List", elts |-> elts]
\* a node the colorizer has no case for (ast.Slice, ast.Compare, ...); source
\* is what astor.to_source returns for it, None when astor raises
AstOther(source) == [k |-> "ast.other", source |-> source]

IsAst(pyval) ==
    pyval.k \in {"ast.Constant", "ast.Name", "ast.Attribute", "ast.Call",
                 "ast.keyword", "ast.List", "ast.other"}

T_True == <<"T", "r", "u", "e">>
T_False == <<"F", "a", "l", "s", "e">>
T_None == <<"N", "o", "n", "e">>
T_NotImplemented == <<"N", "o", "t", "I", "m", "p", "l", "e", "m", "e", "n", "t", "e", "d">>
T_re == <<"r", "e">>
T_compile == <<"c", "o", "m", "p", "i", "l", "e">>

\* str(pyval) for the values of the first two branches of _colorize
PyStrOf(pyval) ==
    IF pyval.k = "int" THEN IntStr(pyval.n)
    ELSE CASE pyval.name = "True" -> T_True
           [] pyval.name = "False" -> T_False
           [] pyval.name = "None" -> T_None
           [] pyval.name = "NotImplemented" -> T_NotImplemented

\* pyval in (False, True, None, NotImplemented): the tuple membership test
\* compares with ==, and 0 == False, 1 == True
InConstants(pyval) ==
    \/ pyval.k = "const"
    \/ pyval.k = "int" /\ pyval.n \in {0, 1}

\* c.encode('unicode-escape') for the characters of the model's alphabet
EncChar(c) ==
    IF c = SQ THEN <<BS, SQ>>
    ELSE IF c = NL THEN <<BS, "n">>
    ELSE IF c = BS THEN <<BS, BS>>
    ELSE <<c>>

RECURSIVE _str_escape(_)
_str_escape(s) ==
    IF s = <<>> THEN <<>> ELSE EncChar(Head(s)) \o _str_escape(Tail(s))

IsHex(c) ==
    c \in {"0", "1", "2", "3", "4", "5", "6", "7", "8", "9",
           "a", "b", "c", "d", "e", "f", "A", "B", "C", "D", "E", "F"}

\* GENERIC_OBJECT_RE.search(pyval_repr): the positions i where ' at 0x'
\* starts such that '<' descr ' at 0x' hex+ '>' spans the text ($ also
\* matches before one trailing newline); the greedy descr takes the last
GenericEnd(r) ==
    {e \in {Len(r), Len(r) - 1} :
        /\ e >= 1
        /\ r[e] = ">"
        /\ e = Len(r) \/ r[Len(r)] = NL}

GenericSplits(r) ==
    {i \in 2..Len(r) : \E e \in GenericEnd(r) :
        /\ i + 6 <= e - 1
        /\ r[1] = "<"
        /\ SubSeq(r, i, i + 3) = <<" ", "a", "t", " ">>
        /\ r[i + 4] = "0"
        /\ r[i + 5] \in {"x", "X"}
        /\ \A j \in (i + 6)..(e - 1) : IsHex(r[j])
        /\ \A j \in 2..(i - 1) : r[j] # NL}

\* variant of GenericDescr: the address stays in the description
GenericDescr_WithAddr(r) == SubSeq(r, 2, Len(r) - 1)

GenericDescr(r) ==
    LET i == CHOOSE j \in GenericSplits(r) : \A h \in GenericSplits(r) : h <= j
    IN SubSeq(r, 2, i - 1)

\* ------------------------------------------------------------- regexes
\* An element of a parsed pattern is a record [op, args]; args is
\*   LITERAL, NOT_LITERAL   the character
\*   BRANCH                 [first, items]  (args[0], args[1])
\*   IN                     the member elements
\*   CATEGORY, AT           the code's name
\*   MAX_REPEAT, MIN_REPEAT [min, max, item]
\*   SUBPATTERN             [group, item]   (args[0], args[3])
\*   GROUPREF               the group number
\*   RANGE                  [lo, hi]
\*   ASSERT, ASSERT_NOT     [dir, item]
Elt(op, args) == [op |-> op, args |-> args]
\* sre_constants.MAXREPEAT, the "no upper limit" sentinel (any number larger
\* than every repeat count of the model)
MAXREPEAT == 2147483647

ReSpecial == {".", "^", "$", BS, "*", "+", "?", "{", "}", "[", "]", "|", "(", ")", SQ}

\* the escaping of a LITERAL
ReLiteral(c) ==
    IF c \in ReSpecial THEN <<BS, c>>
    ELSE IF c = "\t" THEN <<BS, "t">>
    ELSE IF c = "\r" THEN <<BS, "r">>
    ELSE IF c = NL THEN <<BS, "n">>
    ELSE IF c = "\f" THEN <<BS, "f">>
    ELSE <<c>>

ReCategory(args) ==
    CASE args = "CATEGORY_DIGIT" -> Some(<<BS, "d">>)
      [] args = "CATEGORY_NOT_DIGIT" -> Some(<<BS, "D">>)
      [] args = "CATEGORY_SPACE" -> Some(<<BS, "s">>)
      [] args = "CATEGORY_NOT_SPACE" -> Some(<<BS, "S">>)
      [] args = "CATEGORY_WORD" -> Some(<<BS, "w">>)
      [] args = "CATEGORY_NOT_WORD" -> Some(<<BS, "W">>)
      [] OTHER -> None

ReAt(args) ==
    CASE args = "AT_BEGINNING_STRING" -> Some(<<BS, "A">>)
      [] args = "AT_BEGINNING" -> Some(<<"^">>)
      [] args = "AT_END" -> Some(<<"$">>)
      [] args = "AT_BOUNDARY" -> Some(<<BS, "b">>)
      [] args = "AT_NON_BOUNDARY" -> Some(<<BS, "B">>)
      [] args = "AT_END_STRING" -> Some(<<BS, "Z">>)
      [] OTHER -> None

ReRepeat(op, minrpt, maxrpt) ==
    LET val == IF maxrpt = MAXREPEAT
               THEN IF minrpt = 0 THEN <<"*">>
                    ELSE IF minrpt = 1 THEN <<"+">>
                    ELSE <<"{">> \o IntStr(minrpt) \o <<",", "}">>
               ELSE IF minrpt = 0
               THEN IF maxrpt = 1 THEN <<"?">>
                    ELSE <<"{", ",">> \o IntStr(maxrpt) \o <<"}">>
               ELSE IF minrpt = maxrpt
               THEN <<"{">> \o IntStr(maxrpt) \o <<"}">>
               ELSE <<"{">> \o IntStr(minrpt) \o <<",">> \o IntStr(maxrpt) \o <<"}">>
    IN IF op = "MIN_REPEAT" THEN val \o <<"?">> ELSE val

RECURSIVE _colorize_re_tree(_, _, _, _, _)
RECURSIVE ReTreeLoop(_, _, _, _, _)
RECURSIVE ReBranchLoop(_, _, _, _, _)
RECURSIVE ReElt(_, _, _, _)

ReBranchLoop(self, items, i, state, groups) ==
    IF state.exc # "none" \/ i > Len(items) THEN state
    ELSE LET st1 == IF i > 1 THEN _output(self, <<"|">>, RE_OP_TAG, state, FALSE)
                    ELSE state
         IN ReBranchLoop(self, items, i + 1,
                _colorize_re_tree(self, items[i], st1, TRUE, groups), groups)

ReElt(self, elt, state, groups) ==
    LET op == elt.op
        args == elt.args
    IN
    CASE op = "LITERAL" -> _output(self, ReLiteral(args), RE_CHAR_TAG, state, FALSE)
      [] op = "ANY" -> _output(self, <<".">>, RE_CHAR_TAG, state, FALSE)
      [] op = "BRANCH" ->
            IF args.first # None THEN Raise(state, "ValueError")
            ELSE ReBranchLoop(self, args.items, 1, state, groups)
      [] op = "IN" ->
            IF Len(args) = 1 /\ args[1].op = "CATEGORY"
            THEN _colorize_re_tree(self, args, state, FALSE, groups)
            ELSE _output(self, <<"]">>, RE_GROUP_TAG,
                   _colorize_re_tree(self, args,
                       _output(self, <<"[">>, RE_GROUP_TAG, state, FALSE),
                       TRUE, groups), FALSE)
      [] op = "CATEGORY" ->
            IF ReCategory(args) = None THEN Raise(state, "ValueError")
            ELSE _output(self, ReCategory(args)[1], RE_CHAR_TAG, state, FALSE)
      [] op = "AT" ->
            IF ReAt(args) = None THEN Raise(state, "ValueError")
            ELSE _output(self, ReAt(args)[1], RE_CHAR_TAG, state, FALSE)
      [] op \in {"MAX_REPEAT", "MIN_REPEAT"} ->
            _output(self, ReRepeat(op, args.min, args.max), RE_OP_TAG,
                _colorize_re_tree(self, args.item, state, FALSE, groups), FALSE)
      [] op = "SUBPATTERN" ->
            LET open ==
                  IF args.group = None
                  THEN _output(self, <<"(", "?", ":">>, RE_GROUP_TAG, state, FALSE)
                  ELSE IF args.group[1] \in DOMAIN groups
                  THEN _output(self, <<">">>, RE_GROUP_TAG,
                         _output(self, groups[args.group[1]], RE_REF_TAG,
                           _output(self, <<"(", "?", "P", "<">>, RE_GROUP_TAG, state, FALSE),
                           FALSE), FALSE)
                  ELSE _output(self, <<"(">>, RE_GROUP_TAG, state, FALSE)
            IN _output(self, <<")">>, RE_GROUP_TAG,
                   _colorize_re_tree(self, args.item, open, TRUE, groups), FALSE)
      [] op = "GROUPREF" ->
            _output(self, <<BS>> \o IntStr(args), RE_REF_TAG, state, FALSE)
      [] op = "RANGE" ->
            _colorize_re_tree(self, <<Elt("LITERAL", args.hi)>>,
                _output(self, <<"-">>, RE_OP_TAG,
                    _colorize_re_tree(self, <<Elt("LITERAL", args.lo)>>, state, FALSE, groups),
                    FALSE),
                FALSE, groups)
      [] op = "NEGATE" -> _output(self, <<"^">>, RE_OP_TAG, state, FALSE)
      [] op = "ASSERT" ->
            _output(self, <<")">>, RE_GROUP_TAG,
                _colorize_re_tree(self, args.item,
                    _output(self, IF args.dir > 0 THEN <<"(", "?", "=">>
                                  ELSE <<"(", "?", "<", "=">>, RE_GROUP_TAG, state, FALSE),
                    TRUE, groups), FALSE)
      [] op = "ASSERT_NOT" ->
            _output(self, <<")">>, RE_GROUP_TAG,
                _colorize_re_tree(self, args.item,
                    _output(self, IF args.dir > 0 THEN <<"(", "?", "!">>
                                  ELSE <<"(", "?", "<", "!">>, RE_GROUP_TAG, state, FALSE),
                    TRUE, groups), FALSE)
      [] op = "NOT_LITERAL" ->
            _output(self, <<"]">>, RE_GROUP_TAG,
                _colorize_re_tree(self, <<Elt("LITERAL", args)>>,
                    _output(self, <<"[", "^">>, RE_GROUP_TAG, state, FALSE),
                    FALSE, groups), FALSE)
      [] OTHER -> Raise(state, "RuntimeError")

ReTreeLoop(self, tree, i, state, groups) ==
    IF state.exc # "none" \/ i > Len(tree) THEN state
    ELSE ReTreeLoop(self, tree, i + 1, ReElt(self, tree[i], state, groups), groups)

\* variant of _colorize_re_tree: the wrapping parenthesis is not closed
_colorize_re_tree_Unclosed(self, tree, state, noparen, groups) ==
    IF state.exc # "none" THEN state
    ELSE LET paren == Len(tree) > 1 /\ ~noparen
             st1 == IF paren THEN _output(self, <<"(">>, RE_GROUP_TAG, state, FALSE)
                    ELSE state
         IN ReTreeLoop(self, tree, 1, st1, groups)

_colorize_re_tree(self, tree, state, noparen, groups) ==
    IF state.exc # "none" THEN state
    ELSE LET paren == Len(tree) > 1 /\ ~noparen
             st1 == IF paren THEN _output(self, <<"(">>, RE_GROUP_TAG, state, FALSE)
                    ELSE state
             st2 == ReTreeLoop(self, tree, 1, st1, groups)
         IN IF paren THEN _output(self, <<")">>, RE_GROUP_TAG, st2, FALSE) ELSE st2

\* sre_parse.parse for the patterns of the model: err when it raises
\* re.error, else the parsed elements and the group names (number -> name)
T_a_or_b == <<"a", "|", "b">>
T_ab_or_c == <<"a", "b", "|", "c">>
T_open == <<"(">>
T_cond == <<"(", "a", ")", "(", "?", "(", "1", ")", "b", ")">>

sre_parse_parse(pat) ==
    CASE pat = T_a_or_b ->
           [err |-> FALSE, groups |-> <<>>,
            data |-> <<Elt("IN", <<Elt("LITERAL", "a"), Elt("LITERAL", "b")>>)>>]
      [] pat = T_ab_or_c ->
           [err |-> FALSE, groups |-> <<>>,
            data |-> <<Elt("BRANCH",
                        [first |-> None,
                         items |-> << <<Elt("LITERAL", "a"), Elt("LITERAL", "b")>>,
                                      <<Elt("LITERAL", "c")>> >>])>>]
      [] pat = T_cond ->
           [err |-> FALSE, groups |-> <<>>,
            data |-> <<Elt("SUBPATTERN", [group |-> Some(1), item |-> <<Elt("LITERAL", "a")>>]),
                       Elt("GROUPREF_EXISTS", 1)>>]
      [] pat = T_open -> [err |-> TRUE, groups |-> <<>>, data |-> <<>>]

_colorize_re_pattern(self, pat, flags, state) ==
    IF state.exc # "none" THEN state
    ELSE LET tree == sre_parse_parse(pat)
         IN IF tree.err THEN Raise(state, "re.error")
            ELSE _colorize_re_tree(self, tree.data, state, TRUE, tree.groups)

\* ------------------------------------------------- object colorization
AppendOk(state, frag) == IF state.exc # "none" THEN state ELSE Append1(state, frag)

\* variant of _insert_comma: the separator is always comma and space
_insert_comma_Flat(self, indent, state) ==
    IF state.exc # "none" THEN state
    ELSE _output(self, <<",", " ">>, COMMA_TAG, state, FALSE)

_insert_comma(self, indent, state) ==
    IF state.exc # "none" THEN state
    ELSE IF state.linebreakok
    THEN _output(self, <<NL>> \o [j \in 1..indent |-> " "], "None",
             _output(self, <<",">>, COMMA_TAG, state, FALSE), FALSE)
    ELSE _output(self, <<",", " ">>, COMMA_TAG, state, FALSE)

\* pydoctor.astutils.node2dottedname
RECURSIVE node2dottedname(_)
node2dottedname(node) ==
    IF node.k = "ast.Name" THEN Some(<<node.id>>)
    ELSE IF node.k = "ast.Attribute"
    THEN LET base == node2dottedname(node.value)
         IN IF base = None THEN None ELSE Some(Append(base[1], node.attr))
    ELSE None

\* '.'.join(parts)
RECURSIVE JoinDot(_)
JoinDot(parts) ==
    IF Len(parts) = 1 THEN parts[1]
    ELSE parts[1] \o <<".">> \o JoinDot(Tail(parts))

\* pydoctor.astutils.bind_args against signature(re.compile), which is
\* (pattern, flags=0): err when Signature.bind raises TypeError
T_pattern == <<"p", "a", "t", "t", "e", "r", "n">>
T_flags == <<"f", "l", "a", "g", "s">>

bind_args(node) ==
    LET named == {i \in 1..Len(node.keywords) : node.keywords[i].arg # None}
        kw(name) == {i \in named : node.keywords[i].arg = Some(name)}
        npos == Len(node.args)
        err == \/ npos > 2
               \/ \E i \in named : node.keywords[i].arg \notin {Some(T_pattern), Some(T_flags)}
               \/ npos >= 1 /\ kw(T_pattern) # {}
               \/ npos >= 2 /\ kw(T_flags) # {}
               \/ npos = 0 /\ kw(T_pattern) = {}
        pattern == IF npos >= 1 THEN Some(node.args[1])
                   ELSE Some(node.keywords[CHOOSE i \in kw(T_pattern) : TRUE].value)
        flags == IF npos >= 2 THEN Some(node.args[2])
                 ELSE IF kw(T_flags) # {}
                 THEN Some(node.keywords[CHOOSE i \in kw(T_flags) : TRUE].value)
                 ELSE None
    IN IF err THEN [err |-> TRUE, pattern |-> None, flags |-> None]
       ELSE [err |-> FALSE, pattern |-> pattern, flags |-> flags]

_is_ast_constant(node) == node.k = "ast.Constant"
_get_ast_constant_val(node) == node.value

\* The colorization methods call each other recursively.  Every such call
\* goes through Do(f, self, a, state), which calls the method named f with the
\* arguments of the record a; _multiline's parameter func is such a name.
RECURSIVE Do(_, _, _, _)
RECURSIVE IterLoop(_, _, _, _, _)
RECURSIVE DictLoop(_, _, _, _, _)

_colorize_str(self, pyval, state, prefix) ==
    IF state.exc # "none" THEN state
    ELSE LET hasNL == \E i \in 1..Len(pyval) : pyval[i] = NL
             quote == IF hasNL /\ state.linebreakok THEN <<SQ, SQ, SQ>> ELSE <<SQ>>
             lines == IF state.linebreakok THEN SplitNL(pyval) ELSE <<pyval>>
             Body[i \in 0..Len(lines)] ==
                 IF i = 0 THEN _output(self, prefix \o quote, QUOTE_TAG, state, FALSE)
                 ELSE _output(self, _str_escape(lines[i]), STRING_TAG,
                          IF i > 1 THEN _output(self, <<NL>>, "None", Body[i - 1], FALSE)
                          ELSE Body[i - 1], FALSE)
         IN _output(self, quote, QUOTE_TAG, Body[Len(lines)], FALSE)

_colorize_ast_generic(self, pyval, state) ==
    IF state.exc # "none" THEN state
    ELSE IF pyval.source = None THEN Append1(state, UNKNOWN_REPR)
    ELSE _output(self, pyval.source[1], "None", state, FALSE)

_colorize_ast_constant(self, pyval, state) ==
    LET val == _get_ast_constant_val(pyval)
    IN IF val # PyEllipsis THEN Do("_colorize", self, [pyval |-> val], state)
       ELSE _output(self, <<".", ".", ".">>, ELLIPSIS_TAG, state, FALSE)

_colorize_ast_name(self, pyval, state) ==
    _output(self, pyval.id, LINK_TAG, state, TRUE)

_colorize_ast_attribute(self, pyval, state) ==
    LET parts == node2dottedname(pyval)
    IN IF parts = None THEN _colorize_ast_generic(self, pyval, state)
       ELSE _output(self, JoinDot(parts[1]), LINK_TAG, state, TRUE)

\* variant of _multiline: the state is restored also when the signal is
\* raised again
_multiline_RestoreFirst(self, func, pyval, state, prefix, suffix) ==
    IF state.exc # "none" THEN state
    ELSE LET linebreakok == state.linebreakok
             m == mark(state)
             kwargs == [pyval |-> pyval, prefix |-> prefix, suffix |-> suffix]
             st1 == Do(func, self, kwargs, [state EXCEPT !.linebreakok = FALSE])
         IN IF st1.exc = "none" THEN [st1 EXCEPT !.linebreakok = linebreakok]
            ELSE IF st1.exc = "_Linebreak"
            THEN IF ~linebreakok THEN Raise(restore([st1 EXCEPT !.exc = "none"], m), "_Linebreak")
                 ELSE Do(func, self, kwargs, restore([st1 EXCEPT !.exc = "none"], m))
            ELSE st1

\* variant of _multiline: state.linebreakok is not set back after the compact
\* attempt
_multiline_FlagLeft(self, func, pyval, state, prefix, suffix) ==
    IF state.exc # "none" THEN state
    ELSE LET linebreakok == state.linebreakok
             m == mark(state)
             kwargs == [pyval |-> pyval, prefix |-> prefix, suffix |-> suffix]
             st1 == Do(func, self, kwargs, [state EXCEPT !.linebreakok = FALSE])
         IN IF st1.exc = "none" THEN st1
            ELSE IF st1.exc = "_Linebreak"
            THEN IF ~linebreakok THEN st1
                 ELSE Do(func, self, kwargs, restore([st1 EXCEPT !.exc = "none"], m))
            ELSE st1

_multiline(self, func, pyval, state, prefix, suffix) ==
    IF state.exc # "none" THEN state
    ELSE LET linebreakok == state.linebreakok
             m == mark(state)
             kwargs == [pyval |-> pyval, prefix |-> prefix, suffix |-> suffix]
             st1 == Do(func, self, kwargs, [state EXCEPT !.linebreakok = FALSE])
         IN IF st1.exc = "none" THEN [st1 EXCEPT !.linebreakok = linebreakok]
            ELSE IF st1.exc = "_Linebreak"
            THEN IF ~linebreakok THEN st1
                 ELSE Do(func, self, kwargs, restore([st1 EXCEPT !.exc = "none"], m))
            ELSE st1

IterLoop(self, pyval, i, indent, state) ==
    IF state.exc # "none" \/ i > Len(pyval) THEN state
    ELSE LET st1 == IF i >= 2 THEN _insert_comma(self, indent, state) ELSE state
         IN IterLoop(self, pyval, i + 1, indent,
                Do("_colorize", self, [pyval |-> pyval[i]],
                   AppendOk(st1, WORD_BREAK_OPPORTUNITY)))

_colorize_iter(self, pyval, state, prefix, suffix) ==
    IF state.exc # "none" THEN state
    ELSE LET st1 == IF prefix # None THEN _output(self, prefix[1], GROUP_TAG, state, FALSE)
                    ELSE state
             st2 == IterLoop(self, pyval, 1, st1.charpos, st1)
         IN IF suffix # None THEN _output(self, suffix[1], GROUP_TAG, st2, FALSE)
            ELSE st2

DictLoop(self, items, i, indent, state) ==
    IF state.exc # "none" \/ i > Len(items) THEN state
    ELSE LET st1 == IF i >= 2
                    THEN IF state.linebreakok
                         THEN _output(self, <<NL>> \o [j \in 1..indent |-> " "], "None",
                                  _output(self, <<",">>, COMMA_TAG, state, FALSE), FALSE)
                         ELSE _output(self, <<",", " ">>, COMMA_TAG, state, FALSE)
                    ELSE state
             st2 == Do("_colorize", self, [pyval |-> items[i][1]],
                       AppendOk(st1, WORD_BREAK_OPPORTUNITY))
             st3 == _output(self, <<":", " ">>, COLON_TAG, st2, FALSE)
         IN DictLoop(self, items, i + 1, indent,
                Do("_colorize", self, [pyval |-> items[i][2]], st3))

_colorize_dict(self, items, state, prefix, suffix) ==
    IF state.exc # "none" THEN state
    ELSE LET st1 == _output(self, prefix[1], GROUP_TAG, state, FALSE)
         IN _output(self, suffix[1], GROUP_TAG,
                DictLoop(self, items, 1, st1.charpos, st1), FALSE)

_colorize_ast_call_generic(self, node, state) ==
    IF state.exc # "none" THEN state
    ELSE LET st1 == _output(self, <<"(">>, GROUP_TAG,
                        Do("_colorize_ast", self, [pyval |-> node.func], state), FALSE)
             indent == st1.charpos
             st2 == Do("_multiline", self,
                       [func |-> "_colorize_iter", pyval |-> node.args,
                        prefix |-> None, suffix |-> None], st1)
             st3 == IF node.keywords # <<>>
                    THEN Do("_multiline", self,
                            [func |-> "_colorize_iter", pyval |-> node.keywords,
                             prefix |-> None, suffix |-> None],
                            IF node.args # <<>> THEN _insert_comma(self, indent, st2)
                            ELSE st2)
                    ELSE st2
         IN _output(self, <<")">>, GROUP_TAG, st3, FALSE)

_colorize_ast_re(self, args, node, state) ==
    IF state.exc # "none" THEN state
    ELSE IF args.pattern # None /\ _is_ast_constant(args.pattern[1])
    THEN LET st1 == _output(self, <<"(">>, GROUP_TAG,
                        Do("_colorize_ast", self, [pyval |-> node.func], state), FALSE)
             indent == st1.charpos
             st2 == _output(self, <<SQ>>, QUOTE_TAG,
                        _output(self, <<"r">>, "None", st1, FALSE), FALSE)
             pat == _get_ast_constant_val(args.pattern[1])
             st3 == _output(self, <<SQ>>, QUOTE_TAG,
                        _colorize_re_pattern(self, pat.s, 0, st2), FALSE)
             st4 == IF args.flags # None
                    THEN Do("_colorize_ast", self, [pyval |-> args.flags[1]],
                            _insert_comma(self, indent, st3))
                    ELSE st3
         IN _output(self, <<")">>, GROUP_TAG, st4, FALSE)
    ELSE Do("_colorize_ast_call_generic", self, [node |-> node], state)

\* The handler of (ValueError, re.error) restores the mark and then calls
\* _colorize_ast_call_generic(args, node, state): one positional argument
\* more than the method takes, so the call itself raises TypeError.
_colorize_ast_call(self, node, state) ==
    IF state.exc # "none" THEN state
    ELSE IF node2dottedname(node.func) = Some(<<T_re, T_compile>>)
    THEN LET args == bind_args(node)
         IN IF args.err
            THEN Do("_colorize_ast_call_generic", self, [node |-> node], state)
            ELSE LET m == mark(state)
                     st1 == Do("_colorize_ast_re", self, [args |-> args, node |-> node], state)
                 IN IF st1.exc \in {"ValueError", "re.error"}
                    THEN Raise(restore(st1, m), "TypeError")
                    ELSE st1
    ELSE Do("_colorize_ast_call_generic", self, [node |-> node], state)

_colorize_ast(self, pyval, state) ==
    IF state.exc # "none" THEN state
    ELSE CASE _is_ast_constant(pyval) -> _colorize_ast_constant(self, pyval, state)
           [] pyval.k = "ast.List" ->
                Do("_multiline", self,
                   [func |-> "_colorize_iter", pyval |-> pyval.elts,
                    prefix |-> Some(<<"[">>), suffix |-> Some(<<"]">>)], state)
           [] pyval.k = "ast.Name" -> _colorize_ast_name(self, pyval, state)
           [] pyval.k = "ast.Attribute" -> _colorize_ast_attribute(self, pyval, state)
           [] pyval.k = "ast.Call" ->
                Do("_colorize_ast_call", self, [node |-> pyval], state)
           [] pyval.k = "ast.keyword" ->
                Do("_colorize_ast", self, [pyval |-> pyval.value],
                   IF pyval.arg # None
                   THEN _output(self, <<"=">>, "None",
                            _output(self, pyval.arg[1], "None", state, FALSE), FALSE)
                   ELSE _output(self, <<"*", "*">>, "None", state, FALSE))
           [] OTHER -> _colorize_ast_generic(self, pyval, state)

\* the container branches of _colorize: the arguments of its _multiline call
MultilineArgs(pyval) ==
    CASE pyval.k = "tuple" ->
           [func |-> "_colorize_iter", pyval |-> pyval.elts,
            prefix |-> Some(<<"(">>), suffix |-> Some(<<")">>)]
      [] pyval.k = "dict" ->
           [func |-> "_colorize_dict", pyval |-> pyval.items,
            prefix |-> Some(<<"{">>), suffix |-> Some(<<"}">>)]
      [] pyval.k = "list" ->
           [func |-> "_colorize_iter", pyval |-> pyval.elts,
            prefix |-> Some(<<"[">>), suffix |-> Some(<<"]">>)]

\* variant of _colorize: the exception of repr(pyval) is not caught
_colorize_Uncaught(self, pyval, state) ==
    IF state.exc # "none" THEN state
    ELSE LET st == [state EXCEPT !.score = @ + 1]
         IN
         IF InConstants(pyval) THEN _output(self, PyStrOf(pyval), CONST_TAG, st, TRUE)
         ELSE IF pyval.k = "int" THEN _output(self, PyStrOf(pyval), NUMBER_TAG, st, FALSE)
         ELSE IF pyval.k = "str" THEN _colorize_str(self, pyval.s, st, <<>>)
         ELSE IF pyval.k \in {"tuple", "dict", "list"}
         THEN Do("_multiline", self, MultilineArgs(pyval), st)
         ELSE IF IsAst(pyval) THEN Do("_colorize_ast", self, [pyval |-> pyval], st)
         ELSE IF pyval.repr = None
         THEN Raise(st, "Exception")
         ELSE IF GenericSplits(pyval.repr[1]) # {}
         THEN _output(self, <<"<">> \o GenericDescr(pyval.repr[1]) \o <<">">>, "None",
                  [st EXCEPT !.score = @ - 5], FALSE)
         ELSE _output(self, pyval.repr[1], "None", st, FALSE)

_colorize(self, pyval, state) ==
    IF state.exc # "none" THEN state
    ELSE LET st == [state EXCEPT !.score = @ + 1]
         IN
         IF InConstants(pyval) THEN _output(self, PyStrOf(pyval), CONST_TAG, st, TRUE)
         ELSE IF pyval.k = "int" THEN _output(self, PyStrOf(pyval), NUMBER_TAG, st, FALSE)
         ELSE IF pyval.k = "str" THEN _colorize_str(self, pyval.s, st, <<>>)
         ELSE IF pyval.k \in {"tuple", "dict", "list"}
         THEN Do("_multiline", self, MultilineArgs(pyval), st)
         ELSE IF IsAst(pyval) THEN Do("_colorize_ast", self, [pyval |-> pyval], st)
         ELSE IF pyval.repr = None
         THEN Append1([st EXCEPT !.score = @ - 100], UNKNOWN_REPR)
         ELSE IF GenericSplits(pyval.repr[1]) # {}
         THEN _output(self, <<"<">> \o GenericDescr(pyval.repr[1]) \o <<">">>, "None",
                  [st EXCEPT !.score = @ - 5], FALSE)
         ELSE _output(self, pyval.repr[1], "None", st, FALSE)

Do(f, self, a, state) ==
    CASE f = "_colorize" -> _colorize(self, a.pyval, state)
      [] f = "_multiline" -> _multiline(self, a.func, a.pyval, state, a.prefix, a.suffix)
      [] f = "_colorize_iter" -> _colorize_iter(self, a.pyval, state, a.prefix, a.suffix)
      [] f = "_colorize_dict" -> _colorize_dict(self, a.pyval, state, a.prefix, a.suffix)
      [] f = "_colorize_ast" -> _colorize_ast(self, a.pyval, state)
      [] f = "_colorize_ast_call" -> _colorize_ast_call(self, a.node, state)
      [] f = "_colorize_ast_call_generic" -> _colorize_ast_call_generic(self, a.node, state)
      [] f = "_colorize_ast_re" -> _colorize_ast_re(self, a.args, a.node, state)

\* ------------------------------------------------------------ _trim_result
\* result[-1][-1] = nodes.Text(...) replaces the Text child of the element
\* object itself: for a shared node that is the entry of heap.
RECURSIVE _trim_result(_, _, _)
_trim_result(result, num_chars, heap) ==
    IF num_chars <= 0 \/ result = <<>> THEN [result |-> result, shared |-> heap]
    ELSE
      LET n == Len(result)
          last == result[n]
          popped == SubSeq(result, 1, n - 1)
      IN
      IF last.kind # "Text"
      THEN IF HasChild(last)
           THEN LET data == IF last.kind = "shared" THEN heap[last.tag] ELSE last.text
                    trim == Min2(num_chars, Len(data))
                    new == PyDropLast(data, trim)
                    heap2 == IF last.kind = "shared"
                             THEN [heap EXCEPT ![last.tag] = new]
                             ELSE heap
                    result2 == IF new = <<>> THEN popped
                               ELSE IF last.kind = "shared" THEN result
                               ELSE [result EXCEPT ![n].text = new]
                IN _trim_result(result2, num_chars - trim, heap2)
           ELSE _trim_result(popped, num_chars, heap)
      ELSE LET trim == Min2(num_chars, Len(last.text))
               new == PyDropLast(last.text, trim)
               result2 == IF new = <<>> THEN popped
                          ELSE [result EXCEPT ![n].text = new]
           IN _trim_result(result2, num_chars - trim, heap)

\* the text a reader of the document finds in each fragment
Rendered(document, heap) ==
    [i \in 1..Len(document) |->
        IF document[i].kind = "shared" /\ document[i].tag \in DOMAIN heap
        THEN [document[i] EXCEPT !.text = heap[document[i].tag]]
        ELSE document[i]]

\* ------------------------------------------------------------- inputs
X_raise == PyObject(None)
O_generic == PyObject(Some(<<"<", "F", " ", "a", "t", " ", "0", "x", "1", ">">>))
O_nl == PyObject(Some(<<NL, "p">>))
S_anb == PyStr(<<"a", NL, "b">>)
S_q == PyStr(<<"i", SQ>>)
N_x == AstName(<<"x">>)
ReCompile == AstAttribute(AstName(T_re), T_compile)
Call_open == AstCall(ReCompile, <<AstConstant(PyStr(T_open))>>, <<>>)
Call_a_or_b == AstCall(ReCompile, <<AstConstant(PyStr(T_a_or_b))>>, <<>>)
Call_cond == AstCall(ReCompile, <<AstConstant(PyStr(T_cond))>>, <<>>)
Call_f == AstCall(AstName(<<"f">>), <<AstName(<<"a">>)>>,
                  <<AstKeyword(Some(<<"k">>), AstConstant(PyInt(1)))>>)
Slice_1 == AstOther(Some(<<"x", ":", "y", NL>>))
Other_raise == AstOther(None)

IntList(n) == PyList([i \in 1..n |-> PyInt(i)])

\* elements of the one-element containers, and of the two-element ones
Elems ==
    {PyInt(n) : n \in 1..MaxInt} \cup {PyConst("None"), S_anb, X_raise, O_nl, N_x}

Elems2 == {PyInt(MaxInt), X_raise, O_nl, N_x}

Scalars ==
    {PyConst(c) : c \in {"True", "False", "None", "NotImplemented"}}
    \cup {PyInt(n) : n \in 0..MaxInt}
    \cup {S_anb, S_q, X_raise, O_generic, O_nl}
    \cup {N_x, Call_open, Call_a_or_b, Call_cond, Call_f, Slice_1, Other_raise}

Containers ==
    {PyList(<<>>)}
    \cup {PyList(<<e>>) : e \in Elems}
    \cup {PyList(<<e1, e2>>) : e1 \in Elems2, e2 \in Elems2}
    \cup {IntList(n) : n \in 3..MaxInt}
    \cup {PyTuple(<<X_raise, PyInt(1)>>),
          PyDict(<< <<PyStr(<<"a">>), PyInt(1)>> >>),
          PyDict(<< <<PyStr(<<"a">>), PyInt(1)>>, <<PyInt(2), X_raise>> >>),
          PyList(<<IntList(2), PyList(<<X_raise, N_x>>)>>),
          PyList(<<Call_open>>)}

Values == Scalars \cup Containers

Configs ==
    [linelen : {NoLimit} \cup 0..MaxWidth, maxlines : 1..MaxLines,
     linebreakok : BOOLEAN]

MinScores == {None, Some(MaxMinScore)}

\* the calls of the runs with a repeated call or with two callers
FewValues ==
    {X_raise, PyInt(1), S_anb, Call_open, PyList(<<X_raise, X_raise>>),
     PyList(<<X_raise, O_nl>>), PyList(<<PyInt(MaxInt), X_raise>>)}

FewConfigs ==
    [linelen : {NoLimit, MaxWidth - 2}, maxlines : {1, MaxLines}, linebreakok : BOOLEAN]

\* ------------------------------------------------------------ colorize
\* variant of colorize_except: with breaks allowed the ellipsis comes before
\* the newline
colorize_except_Swapped(self, state, heap) ==
    IF self.linebreakok
    THEN [state |-> [state EXCEPT !.result = @ \o <<ELLIPSIS, NEWLINE>>],
          shared |-> heap, raised |-> "none"]
    ELSE IF state.result = <<>>
    THEN [state |-> state, shared |-> heap, raised |-> "IndexError"]
    ELSE LET r == state.result
             r1 == IF r[Len(r)] = LINEWRAP THEN SubSeq(r, 1, Len(r) - 1) ELSE r
             tr == _trim_result(r1, 3, heap)
         IN [state |-> [state EXCEPT !.result = Append(tr.result, ELLIPSIS)],
             shared |-> tr.shared, raised |-> "none"]

\* the handler of (_Maxlines, _Linebreak) in colorize; state.result[-1] of an
\* empty list raises IndexError
colorize_except(self, state, heap) ==
    IF self.linebreakok
    THEN [state |-> [state EXCEPT !.result = @ \o <<NEWLINE, ELLIPSIS>>],
          shared |-> heap, raised |-> "none"]
    ELSE IF state.result = <<>>
    THEN [state |-> state, shared |-> heap, raised |-> "IndexError"]
    ELSE LET r == state.result
             r1 == IF r[Len(r)] = LINEWRAP THEN SubSeq(r, 1, Len(r) - 1) ELSE r
             tr == _trim_result(r1, 3, heap)
         IN [state |-> [state EXCEPT !.result = Append(tr.result, ELLIPSIS)],
             shared |-> tr.shared, raised |-> "none"]

\* variant of colorize_min_score: the result is never replaced
colorize_min_score_Keep(state, min_score) == state.result

\* the list state.result after the min_score test
colorize_min_score(state, min_score) ==
    IF min_score # None /\ state.score < min_score[1]
    THEN <<UNKNOWN_REPR>>
    ELSE state.result

ColorizedPyvalRepr(document, score, is_complete) ==
    [document |-> document, score |-> score, is_complete |-> is_complete]

Signals == {"_Maxlines", "_Linebreak"}

\* PyvalColorizer.colorize as a whole, the shared nodes holding the texts of
\* heap: the result as its reader finds it at the return (ret), the texts of
\* the shared nodes afterwards, and the exception that leaves colorize
colorize(self, pyval, min_score, heap) ==
    LET st0 == [ColorizerState EXCEPT !.linebreakok = self.linebreakok]
        st1 == Do("_colorize", self, [pyval |-> pyval], st0)
        ex == IF st1.exc \in Signals THEN colorize_except(self, st1, heap)
              ELSE [state |-> st1, shared |-> heap,
                    raised |-> IF st1.exc = "none" THEN "none" ELSE st1.exc]
    IN IF ex.raised # "none"
       THEN [ret |-> None, shared |-> ex.shared, raised |-> ex.raised]
       ELSE [ret |-> Some(ColorizedPyvalRepr(
                         Rendered(colorize_min_score(ex.state, min_score), ex.shared),
                         ex.state.score, st1.exc = "none")),
             shared |-> ex.shared, raised |-> "none"]

\* ------------------------------------------------------- TemplateLookup
\* A template is a record with its name and kind: an HtmlTemplate has a
\* version (-1: none could be read), a StaticTemplateFile its data, a
\* StaticTemplateFolder its lookup.  The dict _templates of a lookup is the
\* sequence of its values in insertion order, no two of the same name.
HtmlTemplate(name, version) == [kind |-> "HtmlTemplate", name |-> name, version |-> version]
StaticTemplateFile(name, data) == [kind |-> "StaticTemplateFile", name |-> name, data |-> data]
StaticTemplateFolder(name, lookup) ==
    [kind |-> "StaticTemplateFolder", name |-> name, lookup |-> lookup]

\* self._templates.get(name, None): the position of the name, 0 for None
Get(_templates, name) ==
    IF \E i \in 1..Len(_templates) : _templates[i].name = name
    THEN CHOOSE i \in 1..Len(_templates) : _templates[i].name = name
    ELSE 0

\* self._templates[template.name] = template
SetItem(_templates, template) ==
    IF Get(_templates, template.name) = 0 THEN Append(_templates, template)
    ELSE [_templates EXCEPT ![Get(_templates, template.name)] = template]

\* the outcome of a call on a lookup: the dict afterwards, the exception
\* raised ("none" when the call returns) and the names warned about
Outcome(_templates, raised, warned) ==
    [templates |-> _templates, raised |-> raised, warned |-> warned]

_add_overriding_html_template(_templates, template, current_template, warned) ==
    LET default_version == current_template.version
        template_version == template.version
    IN IF default_version # -1 /\ template_version # -1 /\ template_version < default_version
       THEN Outcome(SetItem(_templates, template), "none", Append(warned, template.name))
       ELSE IF default_version # -1 /\ template_version # -1
               /\ template_version > default_version
       THEN Outcome(_templates, "UnsupportedTemplateVersion", warned)
       ELSE Outcome(SetItem(_templates, template), "none", warned)

RECURSIVE add_template(_, _, _)
RECURSIVE MergeLoop(_, _, _, _)

\* for t in template.lookup.templates: current_template.lookup.add_template(t)
\* from the k-th template on; lookup is the dict of current_template.lookup,
\* which keeps what was added to it when a later add_template raises
MergeLoop(lookup, ts, k, warned) ==
    IF k > Len(ts) THEN Outcome(lookup, "none", warned)
    ELSE LET r == add_template(lookup, ts[k], warned)
         IN IF r.raised # "none" THEN r
            ELSE MergeLoop(r.templates, ts, k + 1, r.warned)

\* variant of add_template: a StaticTemplateFile is replaced by a template of
\* any kind
add_template_AnyOverFile(_templates, template, warned) ==
    LET i == Get(_templates, template.name)
    IN IF i = 0 THEN Outcome(SetItem(_templates, template), "none", warned)
       ELSE LET current_template == _templates[i]
            IN CASE current_template.kind = "StaticTemplateFolder" ->
                      IF template.kind = "StaticTemplateFolder"
                      THEN LET r == MergeLoop(current_template.lookup, template.lookup,
                                              1, warned)
                           IN Outcome([_templates EXCEPT ![i].lookup = r.templates],
                                      r.raised, r.warned)
                      ELSE Outcome(_templates, "OverrideTemplateNotAllowed", warned)
                 [] current_template.kind = "StaticTemplateFile" ->
                      Outcome(SetItem(_templates, template), "none", warned)
                 [] current_template.kind = "HtmlTemplate" ->
                      IF template.kind = "HtmlTemplate"
                      THEN _add_overriding_html_template(_templates, template,
                                                         current_template, warned)
                      ELSE Outcome(_templates, "OverrideTemplateNotAllowed", warned)

add_template(_templates, template, warned) ==
    LET i == Get(_templates, template.name)
    IN IF i = 0 THEN Outcome(SetItem(_templates, template), "none", warned)
       ELSE LET current_template == _templates[i]
            IN CASE current_template.kind = "StaticTemplateFolder" ->
                      IF template.kind = "StaticTemplateFolder"
                      THEN LET r == MergeLoop(current_template.lookup, template.lookup,
                                              1, warned)
                           IN Outcome([_templates EXCEPT ![i].lookup = r.templates],
                                      r.raised, r.warned)
                      ELSE Outcome(_templates, "OverrideTemplateNotAllowed", warned)
                 [] current_template.kind = "StaticTemplateFile" ->
                      IF template.kind = "StaticTemplateFile"
                      THEN Outcome(SetItem(_templates, template), "none", warned)
                      ELSE Outcome(_templates, "OverrideTemplateNotAllowed", warned)
                 [] current_template.kind = "HtmlTemplate" ->
                      IF template.kind = "HtmlTemplate"
                      THEN _add_overriding_html_template(_templates, template,
                                                         current_template, warned)
                      ELSE Outcome(_templates, "OverrideTemplateNotAllowed", warned)

\* the templates of the default theme, which TemplateLookup() loads; nav.html
\* is at version DefaultVersion, subheader.html has no version
MaxVersion == 3
DefaultVersion == 2
DefaultTheme ==
    <<HtmlTemplate("nav.html", DefaultVersion),
      HtmlTemplate("subheader.html", -1),
      StaticTemplateFile("apidocs.css", 0),
      StaticTemplateFolder("fonts", <<StaticTemplateFile("f", 0)>>)>>

\* the templates given to add_template
Versions == {-1} \cup 1..MaxVersion
NestedTemplates ==
    {StaticTemplateFile("f", 1), StaticTemplateFile("g", 0), HtmlTemplate("f", 1),
     StaticTemplateFolder("g", <<StaticTemplateFile("f", 1)>>)}
NestedLookups ==
    {<<>>} \cup {<<a>> : a \in NestedTemplates}
    \cup {<<StaticTemplateFile("g", 0), b>> :
              b \in {a \in NestedTemplates : a.name # "g"}}
Templates ==
    {HtmlTemplate(n, v) : n \in {"nav.html", "subheader.html", "fonts", "x"}, v \in Versions}
    \cup {StaticTemplateFile(n, 1) : n \in {"nav.html", "apidocs.css", "fonts", "x"}}
    \cup {StaticTemplateFolder(n, l) : n \in {"apidocs.css", "fonts", "x"},
                                       l \in NestedLookups}

\* -------------------------------------------------------- state machine
Threads == {1, 2}

VARIABLES
    shared,       \* text of the Text child of ELLIPSIS, LINEWRAP, UNKNOWN_REPR
    pc,           \* position of each caller in PyvalColorizer.colorize
    pyval,        \* argument pyval of the call
    self,         \* the colorizer: [linelen, maxlines, linebreakok]
    min_score,    \* argument min_score of the call
    state,        \* the _ColorizerState of the call; its field exc keeps the
                  \* exception that ended the try block
    is_complete,  \* local is_complete of the call
    ret,          \* the returned ColorizedPyvalRepr, as its reader finds it
    first,        \* what the previous call with the same arguments returned
    overlapped,   \* the other caller was inside colorize during this call
    templates,    \* the dict _templates of the TemplateLookup
    template,     \* the argument of the last add_template call
    raised,       \* the exception the last add_template call raised, or "none"
    warned,       \* the template names the last add_template call warned about
    calls,        \* the number of add_template calls made
    colorizer,    \* a PyvalColorizer whose methods are called one by one
    layout,       \* the _ColorizerState given to them
    marked,       \* the snapshot layout.mark(), the state it was taken of and
                  \* the number of methods called before
    op,           \* the last method called on layout, with its arguments
    ops           \* the number of methods called on layout

colorize_vars ==
    <<shared, pc, pyval, self, min_score, state, is_complete, ret, first, overlapped>>
lookup_vars == <<templates, template, raised, warned, calls>>
layout_vars == <<colorizer, layout, marked, op, ops>>
vars == <<colorize_vars, lookup_vars, layout_vars>>

NoVal == PyEllipsis
NoSelf == [linelen |-> NoLimit, maxlines |-> 1, linebreakok |-> TRUE]
Inside(t) == pc[t] \in {"try", "tried", "check"}
Other(t) == CHOOSE u \in Threads : u # t

Init ==
    /\ shared = SharedInit
    /\ pc = [t \in Threads |-> "idle"]
    /\ pyval = [t \in Threads |-> NoVal]
    /\ self = [t \in Threads |-> NoSelf]
    /\ min_score = [t \in Threads |-> None]
    /\ state = [t \in Threads |-> ColorizerState]
    /\ is_complete = [t \in Threads |-> FALSE]
    /\ ret = [t \in Threads |-> None]
    /\ first = [t \in Threads |-> None]
    /\ overlapped = [t \in Threads |-> FALSE]
    /\ templates = DefaultTheme
    /\ template = None
    /\ raised = "none"
    /\ warned = <<>>
    /\ calls = 0
    /\ colorizer = NoSelf
    /\ layout = ColorizerState
    /\ marked = None
    /\ op = [name |-> "none"]
    /\ ops = 0

\* colorize is entered: state = _ColorizerState(); state.linebreakok = self.linebreakok
Call(t, v, c, m) ==
    /\ pc[t] = "idle"
    /\ pc' = [pc EXCEPT ![t] = "try"]
    /\ pyval' = [pyval EXCEPT ![t] = v]
    /\ self' = [self EXCEPT ![t] = c]
    /\ min_score' = [min_score EXCEPT ![t] = m]
    /\ state' = [state EXCEPT ![t] = [ColorizerState EXCEPT !.linebreakok = c.linebreakok]]
    /\ is_complete' = [is_complete EXCEPT ![t] = FALSE]
    /\ ret' = [ret EXCEPT ![t] = None]
    /\ overlapped' = [u \in Threads |->
                        IF u = t THEN Inside(Other(t))
                        ELSE overlapped[u] \/ Inside(u)]
    /\ UNCHANGED <<shared, first>>
    /\ UNCHANGED <<lookup_vars, layout_vars>>

\* the try block: self._colorize(pyval, state)
Render(t) ==
    /\ pc[t] = "try"
    /\ state' = [state EXCEPT ![t] = Do("_colorize", self[t], [pyval |-> pyval[t]], state[t])]
    /\ pc' = [pc EXCEPT ![t] = "tried"]
    /\ UNCHANGED <<shared, pyval, self, min_score, is_complete, ret, first, overlapped>>
    /\ UNCHANGED <<lookup_vars, layout_vars>>

\* except (_Maxlines, _Linebreak): ...; is_complete = False
Except(t) ==
    /\ pc[t] = "tried"
    /\ state[t].exc \in Signals
    /\ LET r == colorize_except(self[t], state[t], shared)
       IN /\ state' = [state EXCEPT ![t] =
                         IF r.raised = "none" THEN r.state ELSE Raise(r.state, r.raised)]
          /\ shared' = r.shared
          /\ pc' = [pc EXCEPT ![t] = IF r.raised = "none" THEN "check" ELSE "raised"]
    /\ is_complete' = [is_complete EXCEPT ![t] = FALSE]
    /\ UNCHANGED <<pyval, self, min_score, ret, first, overlapped>>
    /\ UNCHANGED <<lookup_vars, layout_vars>>

\* else: is_complete = True
Else(t) ==
    /\ pc[t] = "tried"
    /\ state[t].exc = "none"
    /\ is_complete' = [is_complete EXCEPT ![t] = TRUE]
    /\ pc' = [pc EXCEPT ![t] = "check"]
    /\ UNCHANGED <<shared, pyval, self, min_score, state, ret, first, overlapped>>
    /\ UNCHANGED <<lookup_vars, layout_vars>>

\* any other exception leaves colorize
Escape(t) ==
    /\ pc[t] = "tried"
    /\ state[t].exc \notin Signals \cup {"none"}
    /\ pc' = [pc EXCEPT ![t] = "raised"]
    /\ UNCHANGED <<shared, pyval, self, min_score, state, is_complete, ret, first, overlapped>>
    /\ UNCHANGED <<lookup_vars, layout_vars>>

\* the min_score test and the return of ColorizedPyvalRepr(document, score, is_complete)
Return(t) ==
    /\ pc[t] = "check"
    /\ LET result == colorize_min_score(state[t], min_score[t])
       IN /\ state' = [state EXCEPT ![t].result = result]
          /\ ret' = [ret EXCEPT ![t] =
                       Some(ColorizedPyvalRepr(Rendered(result, shared),
                                               state[t].score, is_complete[t]))]
    /\ pc' = [pc EXCEPT ![t] = "returned"]
    /\ UNCHANGED <<shared, pyval, self, min_score, is_complete, first, overlapped>>
    /\ UNCHANGED <<lookup_vars, layout_vars>>

\* the caller calls colorize again with the same arguments
Again(t) ==
    /\ pc[t] = "returned"
    /\ first[t] = None
    /\ first' = [first EXCEPT ![t] = ret[t]]
    /\ pc' = [pc EXCEPT ![t] = "try"]
    /\ state' = [state EXCEPT ![t] =
                   [ColorizerState EXCEPT !.linebreakok = self[t].linebreakok]]
    /\ is_complete' = [is_complete EXCEPT ![t] = FALSE]
    /\ ret' = [ret EXCEPT ![t] = None]
    /\ UNCHANGED <<shared, pyval, self, min_score, overlapped>>
    /\ UNCHANGED <<lookup_vars, layout_vars>>

\* the caller is done with the result (or with the exception)
Finish(t) ==
    /\ pc[t] \in {"returned", "raised"}
    /\ pc' = [pc EXCEPT ![t] = "idle"]
    /\ pyval' = [pyval EXCEPT ![t] = NoVal]
    /\ self' = [self EXCEPT ![t] = NoSelf]
    /\ min_score' = [min_score EXCEPT ![t] = None]
    /\ state' = [state EXCEPT ![t] = ColorizerState]
    /\ is_complete' = [is_complete EXCEPT ![t] = FALSE]
    /\ ret' = [ret EXCEPT ![t] = None]
    /\ first' = [first EXCEPT ![t] = None]
    /\ overlapped' = [overlapped EXCEPT ![t] = FALSE]
    /\ UNCHANGED shared
    /\ UNCHANGED <<lookup_vars, layout_vars>>

\* one caller, any number of calls one after the other
Next ==
    \/ \E v \in Values, c \in Configs, m \in MinScores : Call(1, v, c, m)
    \/ Render(1)
    \/ Except(1)
    \/ Else(1)
    \/ Escape(1)
    \/ Return(1)
    \/ Finish(1)

Spec == Init /\ [][Next]_vars

\* one caller that may repeat a call with the same arguments
NextRepeat ==
    \/ \E v \in FewValues, c \in FewConfigs, m \in MinScores : Call(1, v, c, m)
    \/ Render(1)
    \/ Except(1)
    \/ Else(1)
    \/ Escape(1)
    \/ Return(1)
    \/ Again(1)
    \/ Finish(1)

SpecRepeat == Init /\ [][NextRepeat]_vars

\* two callers (threads) with one call each, their steps interleaved
NextPair ==
    \E t \in Threads :
        \/ \E v \in FewValues, c \in FewConfigs : Call(t, v, c, None)
        \/ Render(t)
        \/ Except(t)
        \/ Else(t)
        \/ Escape(t)
        \/ Return(t)

SpecPair == Init /\ [][NextPair]_vars

\* lookup = TemplateLookup() followed by add_template calls, each of which
\* returns or raises
MaxCalls == 3

AddTemplate(t) ==
    /\ calls < MaxCalls
    /\ LET r == add_template(templates, t, <<>>)
       IN /\ templates' = r.templates
          /\ raised' = r.raised
          /\ warned' = r.warned
    /\ template' = Some(t)
    /\ calls' = calls + 1
    /\ UNCHANGED <<colorize_vars, layout_vars>>

NextLookup == \E t \in Templates : AddTemplate(t)

SpecLookup == Init /\ [][NextLookup]_vars

\* the methods of a colorizer called one after the other on one
\* _ColorizerState, as the rendering of a value calls them
MaxOps == 3

\* the arguments of the _output calls
Emits ==
    {[s |-> <<"a", "b">>, css_class |-> "None", link |-> FALSE],
     [s |-> <<"a", NL, "b">>, css_class |-> "None", link |-> FALSE],
     [s |-> [i \in 1..(MaxWidth + 1) |-> Digit(i)], css_class |-> STRING_TAG, link |-> FALSE],
     [s |-> <<"x", ".", "y", "z">>, css_class |-> "None", link |-> TRUE],
     [s |-> <<>>, css_class |-> "None", link |-> FALSE]}

LayoutValues == {X_raise, S_anb, PyList(<<X_raise, O_nl>>)}

LayoutContainers ==
    {IntList(3), PyList(<<X_raise, O_nl>>),
     PyDict(<< <<PyStr(<<"a">>), PyInt(1)>>, <<PyInt(2), X_raise>> >>),
     PyList(<<IntList(2), PyList(<<X_raise, N_x>>)>>)}

LayoutConfigs ==
    [linelen : {NoLimit, 1, 2, MaxWidth - 2}, maxlines : {1, MaxLines}, linebreakok : BOOLEAN]

\* a fresh state; inside the compact attempt of a _multiline its linebreakok
\* is False while the colorizer's is True
New(c, lb) ==
    /\ op.name = "none"
    /\ lb \in {c.linebreakok, FALSE}
    /\ colorizer' = c
    /\ layout' = [ColorizerState EXCEPT !.linebreakok = lb]
    /\ op' = [name |-> "_ColorizerState"]
    /\ UNCHANGED <<marked, ops>>
    /\ UNCHANGED <<colorize_vars, lookup_vars>>

Running == op.name \notin {"none", "restore"} /\ layout.exc = "none" /\ ops < MaxOps

Emit(e) ==
    /\ Running
    /\ layout' = _output(colorizer, e.s, e.css_class, layout, e.link)
    /\ op' = [name |-> "_output", s |-> e.s, css_class |-> e.css_class, link |-> e.link]
    /\ ops' = ops + 1
    /\ UNCHANGED <<colorizer, marked>>
    /\ UNCHANGED <<colorize_vars, lookup_vars>>

Colorize(v) ==
    /\ Running
    /\ layout' = Do("_colorize", colorizer, [pyval |-> v], layout)
    /\ op' = [name |-> "_colorize", pyval |-> v]
    /\ ops' = ops + 1
    /\ UNCHANGED <<colorizer, marked>>
    /\ UNCHANGED <<colorize_vars, lookup_vars>>

Multiline(v) ==
    /\ Running
    /\ layout' = Do("_multiline", colorizer, MultilineArgs(v), layout)
    /\ op' = [name |-> "_multiline", pyval |-> v]
    /\ ops' = ops + 1
    /\ UNCHANGED <<colorizer, marked>>
    /\ UNCHANGED <<colorize_vars, lookup_vars>>

Mark ==
    /\ Running
    /\ marked = None
    /\ marked' = Some([m |-> mark(layout), at |-> layout, ops |-> ops])
    /\ op' = [name |-> "mark"]
    /\ UNCHANGED <<colorizer, layout, ops>>
    /\ UNCHANGED <<colorize_vars, lookup_vars>>

\* state.restore(mark), in the handler of the exception if one was raised
Restore ==
    /\ op.name \notin {"none", "restore"}
    /\ marked # None
    /\ layout' = restore([layout EXCEPT !.exc = "none"], marked[1].m)
    /\ op' = [name |-> "restore"]
    /\ UNCHANGED <<colorizer, marked, ops>>
    /\ UNCHANGED <<colorize_vars, lookup_vars>>

\* the state is dropped
Drop ==
    /\ op.name # "none"
    /\ op.name = "restore" \/ layout.exc # "none" \/ ops = MaxOps
    /\ colorizer' = NoSelf
    /\ layout' = ColorizerState
    /\ marked' = None
    /\ op' = [name |-> "none"]
    /\ ops' = 0
    /\ UNCHANGED <<colorize_vars, lookup_vars>>

NextLayout ==
    \/ \E c \in LayoutConfigs, lb \in BOOLEAN : New(c, lb)
    \/ \E e \in Emits : Emit(e)
    \/ \E v \in LayoutValues : Colorize(v)
    \/ \E v \in LayoutContainers : Multiline(v)
    \/ Mark
    \/ Restore
    \/ Drop

SpecLayout == Init /\ [][NextLayout]_vars

\* -------------------------------------- one _output call, step by step
\* the iterations a call may run in the model
MaxIter == MaxLines + 2

OutputConfigs ==
    [linelen : {NoLimit, 0, 1, MaxWidth - 2}, maxlines : 1..MaxLines, linebreakok : {TRUE}]

\* the states a call is entered with: any column, also beyond the width
OutputStates(c) ==
    {[ColorizerState EXCEPT !.charpos = col, !.lineno = ln, !.linebreakok = lb] :
        col \in 0..(MaxWidth + 1), ln \in 1..c.maxlines, lb \in BOOLEAN}

\* segments = s.split('\n'), before the first iteration
Enter(c, st, e) ==
    /\ op.name = "none"
    /\ colorizer' = c
    /\ layout' = st
    /\ marked' = Some([m |-> mark(st), at |-> st, ops |-> 0])
    /\ op' = [name |-> "loop", s |-> e.s, css_class |-> e.css_class, link |-> e.link,
              segments |-> SplitNL(e.s), i |-> 1]
    /\ ops' = 0
    /\ UNCHANGED <<colorize_vars, lookup_vars>>

\* one iteration of `for i, segment in enumerate(segments)`
Iterate ==
    /\ op.name = "loop"
    /\ op.i <= Len(op.segments)
    /\ ops < MaxIter
    /\ LET it == OutputIter(colorizer, op.segments, op.i, op.css_class, layout, op.link)
       IN /\ layout' = it.state
          /\ op' = IF it.state.exc # "none" THEN [op EXCEPT !.name = "raised"]
                   ELSE [op EXCEPT !.segments = it.segments, !.i = @ + 1]
    /\ ops' = ops + 1
    /\ UNCHANGED <<colorizer, marked>>
    /\ UNCHANGED <<colorize_vars, lookup_vars>>

\* the list is exhausted: the call returns
Exit ==
    /\ op.name = "loop"
    /\ op.i > Len(op.segments)
    /\ op' = [op EXCEPT !.name = "returned"]
    /\ UNCHANGED <<colorizer, layout, marked, ops>>
    /\ UNCHANGED <<colorize_vars, lookup_vars>>

Leave ==
    /\ op.name \in {"returned", "raised"}
    /\ colorizer' = NoSelf
    /\ layout' = ColorizerState
    /\ marked' = None
    /\ op' = [name |-> "none"]
    /\ ops' = 0
    /\ UNCHANGED <<colorize_vars, lookup_vars>>

NextOutput ==
    \/ \E c \in OutputConfigs : \E st \in OutputStates(c), e \in Emits : Enter(c, st, e)
    \/ Iterate
    \/ Exit
    \/ Leave

\* the interpreter keeps running the loop of a call that was entered
SpecOutput == Init /\ [][NextOutput]_vars /\ WF_vars(Iterate) /\ WF_vars(Exit)

\* ------------------------------------ _colorize_re_tree on parsed trees
\* elements as sre_parse.parse builds them: literals (one that is escaped),
\* groups, assertions, sets, branches and repeats, nested twice; kept in
\* sequences, the elements being records of different shapes
ReAtoms == <<Elt("LITERAL", "a"), Elt("LITERAL", "("), Elt("ANY", None)>>

ReItems ==
    [i \in 1..Len(ReAtoms) |-> <<ReAtoms[i]>>]
    \o [k \in 1..(Len(ReAtoms) * Len(ReAtoms)) |->
           <<ReAtoms[((k - 1) \div Len(ReAtoms)) + 1], ReAtoms[((k - 1) % Len(ReAtoms)) + 1]>>]

ReWrap(item) ==
    <<Elt("SUBPATTERN", [group |-> None, item |-> item]),
      Elt("SUBPATTERN", [group |-> Some(1), item |-> item]),
      Elt("ASSERT", [dir |-> 1, item |-> item]),
      Elt("ASSERT", [dir |-> -1, item |-> item]),
      Elt("ASSERT_NOT", [dir |-> 1, item |-> item]),
      Elt("ASSERT_NOT", [dir |-> -1, item |-> item]),
      Elt("MAX_REPEAT", [min |-> 0, max |-> MAXREPEAT, item |-> item]),
      Elt("MIN_REPEAT", [min |-> 1, max |-> 2, item |-> item]),
      Elt("BRANCH", [first |-> None, items |-> <<item, <<Elt("LITERAL", "a")>> >>])>>

ReSets ==
    <<Elt("NOT_LITERAL", "a"),
      Elt("IN", <<Elt("LITERAL", "a"), Elt("LITERAL", "(")>>),
      Elt("IN", <<Elt("NEGATE", None), Elt("LITERAL", "a"),
                  Elt("RANGE", [lo |-> "a", hi |-> "b"])>>),
      Elt("IN", <<Elt("CATEGORY", "CATEGORY_DIGIT")>>)>>

\* F(s[i]) \o F(s[i+1]) \o ...
RECURSIVE Flatten(_, _, _)
Flatten(F(_), s, i) == IF i > Len(s) THEN <<>> ELSE F(s[i]) \o Flatten(F, s, i + 1)

ReElts1 == ReAtoms \o ReSets \o Flatten(ReWrap, ReItems, 1)

ReElts2 ==
    Flatten(LAMBDA e : ReWrap(<<e>>) \o ReWrap(<<e, Elt("LITERAL", "a")>>),
            ReSets \o Flatten(ReWrap, << <<Elt("LITERAL", "a")>>,
                                         <<Elt("LITERAL", "("), Elt("ANY", None)>> >>, 1),
            1)

\* the trees, numbered: one element, or one element followed by a literal
ReTrees ==
    LET E == ReElts1 \o ReElts2
    IN [i \in 1..Len(E) |-> <<E[i]>>] \o [i \in 1..Len(E) |-> <<E[i], Elt("LITERAL", "a")>>]

\* tree.state.groupdict inverted: no named group, or group 1 named n
ReGroups == {<<>>, << <<"n">> >>}

ReConfigs ==
    [linelen : {NoLimit, MaxWidth - 2}, maxlines : {MaxLines + MaxWidth}, linebreakok : {TRUE}]

\* self._colorize_re_tree(tree, state, noparen, groups) on a fresh state
RenderTree(c, tree, noparen, groups) ==
    /\ op.name = "none"
    /\ colorizer' = c
    /\ layout' = _colorize_re_tree(c, ReTrees[tree], ColorizerState, noparen, groups)
    /\ op' = [name |-> "_colorize_re_tree", tree |-> tree, noparen |-> noparen,
              groups |-> groups]
    /\ ops' = 1
    /\ UNCHANGED marked
    /\ UNCHANGED <<colorize_vars, lookup_vars>>

Forget ==
    /\ op.name = "_colorize_re_tree"
    /\ colorizer' = NoSelf
    /\ layout' = ColorizerState
    /\ op' = [name |-> "none"]
    /\ ops' = 0
    /\ UNCHANGED marked
    /\ UNCHANGED <<colorize_vars, lookup_vars>>

NextRegex ==
    \/ \E c \in ReConfigs, tree \in 1..Len(ReTrees), noparen \in BOOLEAN, groups \in ReGroups :
          RenderTree(c, tree, noparen, groups)
    \/ Forget

SpecRegex == Init /\ [][NextRegex]_vars

\* ================================================================ claims
Returned(t) == pc[t] = "returned"
Document(t) == ret[t][1].document
IsShared(frag, name) == frag.kind = "shared" /\ frag.tag = name
Holds(doc, name) == \E i \in 1..Len(doc) : IsShared(doc[i], name)
HasLink(doc) == \E i \in 1..Len(doc) : doc[i].kind = "link"
EndsWith(doc, name) == doc # <<>> /\ IsShared(doc[Len(doc)], name)

\* the text of a document: a newline fragment reads as a newline, a line-wrap
\* marker as nothing
RECURSIVE DocText(_)
DocText(doc) ==
    IF doc = <<>> THEN <<>>
    ELSE (IF IsShared(Head(doc), "NEWLINE") THEN <<NL>>
          ELSE IF IsShared(Head(doc), "LINEWRAP") THEN <<>>
          ELSE Head(doc).text) \o DocText(Tail(doc))

\* the largest number of characters of text, inline and link fragments on
\* one line of doc (marker nodes not counted); with links = FALSE the lines
\* that hold a link fragment are left out
RECURSIVE Widest(_, _, _, _, _)
Widest(doc, i, cur, best, links) ==
    IF i > Len(doc) THEN Max2(cur, best)
    ELSE IF IsShared(doc[i], "NEWLINE") THEN Widest(doc, i + 1, 0, Max2(cur, best), links)
    ELSE IF doc[i].kind = "link" /\ ~links
    THEN LET rest == SelectSeq([j \in 1..(Len(doc) - i) |-> i + j],
                               LAMBDA j : IsShared(doc[j], "NEWLINE"))
         IN IF rest = <<>> THEN best ELSE Widest(doc, rest[1] + 1, 0, best, links)
    ELSE Widest(doc, i + 1,
                cur + (IF doc[i].kind = "shared" THEN 0 ELSE Len(doc[i].text)),
                best, links)

IsContainer(v) == v.k \in {"list", "tuple", "dict"}

\* the single-line rendering of v is longer than w (or does not exist)
TooLongFor(v, w) ==
    LET one == Do("_colorize", [linelen |-> NoLimit, maxlines |-> 1, linebreakok |-> FALSE],
                  [pyval |-> v], [ColorizerState EXCEPT !.linebreakok = FALSE])
    IN one.exc # "none" \/ one.charpos > w

BelowMinScore(t) == min_score[t] # None /\ state[t].score < min_score[t][1]

\* C1: no exception leaves colorize, whatever the value, the configuration
\* and min_score.
C1_NoExceptionEscapes == \A t \in Threads : pc[t] # "raised"

\* C2: for re.compile('(') as an AST call (the arguments bind, the pattern
\* does not parse) _colorize leaves no exception and the state that the
\* generic call renderer produces from the state before the attempt.
C2_FallsBackToGeneric ==
    \A t \in Threads :
        pc[t] = "tried" /\ pyval[t] = Call_open =>
            state[t] = Do("_colorize_ast_call_generic", self[t], [node |-> Call_open],
                          [ColorizerState EXCEPT !.linebreakok = self[t].linebreakok,
                                                 !.score = 1])

\* C3: a call repeated with the same arguments returns what the call before
\* it returned (document, score, is_complete).
C3_RepeatedCallSameResult ==
    \A t \in Threads : Returned(t) /\ first[t] # None => ret[t] = first[t]

\* C4: a call that overlapped with the other caller's call returns what it
\* returns when run alone.
C4_InterleavedAsAlone ==
    \A t \in Threads :
        Returned(t) /\ overlapped[t] =>
            ret[t] = colorize(self[t], pyval[t], min_score[t], SharedInit).ret

\* C5 as claimed: when a budget signal ended the rendering (as it does
\* whenever more lines than maxlines are needed), the result is incomplete and
\* its document ends with the ellipsis marker, for every min_score.
C5_Original ==
    \A t \in Threads :
        Returned(t) /\ state[t].exc \in Signals =>
            ~ret[t][1].is_complete /\ EndsWith(Document(t), "ELLIPSIS")

\* C5 amended: when a budget signal ended the rendering (as it does whenever
\* more lines than maxlines are needed) the result is incomplete;
\* its document ends with the ellipsis marker unless min_score is given and
\* the score is below it, and then it is the single unknown placeholder.
C5_TruncatedEndsWithEllipsis ==
    \A t \in Threads :
        Returned(t) /\ state[t].exc \in Signals =>
            /\ ~ret[t][1].is_complete
            /\ IF BelowMinScore(t)
               THEN Len(Document(t)) = 1 /\ IsShared(Document(t)[1], "UNKNOWN_REPR")
               ELSE EndsWith(Document(t), "ELLIPSIS")

C5_Witness ==
    \E t \in Threads :
        /\ Returned(t) /\ state[t].exc = "_Maxlines" /\ ~BelowMinScore(t)
        /\ IsContainer(pyval[t])
        /\ Len(Document(t)) > 2 /\ EndsWith(Document(t), "ELLIPSIS")

WidthCase(t) ==
    /\ Returned(t)
    /\ self[t].linelen # NoLimit
    /\ self[t].linebreakok
    /\ IsContainer(pyval[t])
    /\ TooLongFor(pyval[t], self[t].linelen)

C7_NoNewlineInCompactMode ==
    \A t \in Threads :
        Returned(t) /\ ~self[t].linebreakok =>
            /\ ~Holds(Document(t), "NEWLINE")
            /\ pyval[t] = S_anb /\ self[t].linelen = NoLimit /\ ~BelowMinScore(t) =>
                   /\ ret[t][1].is_complete
                   /\ DocText(Document(t)) = <<SQ, "a", BS, "n", "b", SQ>>

C7_Witness ==
    \E t \in Threads :
        /\ Returned(t) /\ ~self[t].linebreakok
        /\ pyval[t] = S_anb /\ self[t].linelen = NoLimit /\ ~BelowMinScore(t)
        /\ DocText(Document(t)) = <<SQ, "a", BS, "n", "b", SQ>>

\* C8: the rendering of an int holds no link fragment.
C8_NumbersAreNotLinks ==
    \A t \in Threads :
        pc[t] = "tried" /\ pyval[t].k = "int" /\ state[t].exc = "none" =>
            ~HasLink(state[t].result)

T_123_flat == <<"[", "1", ",", " ", "2", ",", " ", "3", "]">>
T_123_lines == <<"[", "1", ",", NL, " ", "2", ",", NL, " ", "3", "]">>

\* C9: [1, 2, 3] with no width limit reads [1, 2, 3]; with width 5, breaks
\* allowed and at least 3 lines it reads [1, newline, space, 2, ...]: comma,
\* newline and an indent of one column before every element after the first.
C9_ListLayout ==
    \A t \in Threads :
        Returned(t) /\ pyval[t] = IntList(3) /\ ~BelowMinScore(t) =>
            /\ self[t].linelen = NoLimit =>
                   ret[t][1].is_complete /\ DocText(Document(t)) = T_123_flat
            /\ self[t].linelen = 5 /\ self[t].linebreakok /\ self[t].maxlines >= 3 =>
                   ret[t][1].is_complete /\ DocText(Document(t)) = T_123_lines

C9_Witness ==
    \E t \in Threads :
        /\ Returned(t) /\ pyval[t] = IntList(3) /\ ~BelowMinScore(t)
        /\ self[t].linelen = 5 /\ self[t].linebreakok /\ self[t].maxlines >= 3
        /\ DocText(Document(t)) = T_123_lines

\* C10: at the return, with min_score given and the score below it the
\* document is the one unknown placeholder, otherwise it holds the fragments
\* accumulated so far; score and is_complete are those of the rendering in
\* both cases.
C10_MinScore ==
    [][\A t \in Threads :
         pc[t] = "check" /\ pc'[t] = "returned" =>
            /\ ret'[t] # None
            /\ ret'[t][1].score = state[t].score
            /\ ret'[t][1].is_complete = is_complete[t]
            /\ is_complete[t] = (state[t].exc = "none")
            /\ ret'[t][1].document =
                  IF min_score[t] # None /\ state[t].score < min_score[t][1]
                  THEN Rendered(<<UNKNOWN_REPR>>, shared)
                  ELSE Rendered(state[t].result, shared)]_vars

C10_Witness ==
    \E t \in Threads :
        /\ Returned(t) /\ min_score[t] # None /\ state[t].score < min_score[t][1]
        /\ IsContainer(pyval[t])
        /\ Len(Document(t)) = 1 /\ IsShared(Document(t)[1], "UNKNOWN_REPR")
        /\ ~ret[t][1].is_complete

\* the values whose elements are ints and values whose repr() raises
RaiseValues ==
    {X_raise, PyList(<<X_raise>>), PyTuple(<<X_raise, PyInt(1)>>),
     PyList(<<X_raise, X_raise>>), PyList(<<X_raise, PyInt(MaxInt)>>),
     PyList(<<PyInt(MaxInt), X_raise>>)}

\* the number of fragments of doc that are the shared node name
Count(doc, name) == Cardinality({i \in 1..Len(doc) : IsShared(doc[i], name)})

\* the number of values whose repr() raises among pyval and its elements
NumRaise(v) ==
    IF v = X_raise THEN 1
    ELSE IF v.k \in {"list", "tuple"}
    THEN Cardinality({i \in 1..Len(v.elts) : v.elts[i] = X_raise})
    ELSE 0

NumVisits(v) == IF v.k \in {"list", "tuple"} THEN 1 + Len(v.elts) ELSE 1

RECURSIVE PlainText(_)
PlainText(doc) ==
    IF doc = <<>> THEN <<>>
    ELSE (IF Head(doc).kind = "shared" THEN <<>> ELSE Head(doc).text)
         \o PlainText(Tail(doc))

\* C12: the value whose repr is '<F at 0x1>' costs 5 (score 1 - 5), emits no
\* unknown marker, and is rendered as the plain text '<F>': one plain text
\* fragment when there is no width limit, plain text fragments that
\* concatenate to '<F>' whenever the rendering completes.
C12_GenericObject ==
    \A t \in Threads :
        pc[t] = "tried" /\ pyval[t] = O_generic =>
            /\ state[t].score = 1 - 5
            /\ ~Holds(state[t].result, "UNKNOWN_REPR")
            /\ \A i \in 1..Len(state[t].result) :
                  state[t].result[i].kind \in {"Text", "shared"}
            /\ state[t].exc = "none" => PlainText(state[t].result) = <<"<", "F", ">">>
            /\ self[t].linelen = NoLimit =>
                  /\ state[t].exc = "none"
                  /\ state[t].result = <<TextNode(<<"<", "F", ">">>)>>

C12_Witness ==
    \E t \in Threads :
        /\ pc[t] = "tried" /\ pyval[t] = O_generic
        /\ state[t].result = <<TextNode(<<"<", "F", ">">>)>>
        /\ state[t].score = 1 - 5

T_re_compile_a_or_b ==
    <<"r", "e", ".", "c", "o", "m", "p", "i", "l", "e", "(", "r", SQ,
      "a", "|", "b", SQ, ")">>

\* C13: with no width limit the AST call node of re.compile(r"a|b") is
\* rendered completely and the text of its fragments is re.compile(r'a|b').
C13_RoundTrip ==
    \A t \in Threads :
        pc[t] = "tried" /\ pyval[t] = Call_a_or_b /\ self[t].linelen = NoLimit =>
            /\ state[t].exc = "none"
            /\ PlainText(state[t].result) = T_re_compile_a_or_b

\* every name of the lookup old is in the lookup new with the same kind,
\* and so for the lookups of its folders
RECURSIVE KindsKept(_, _)
KindsKept(old, new) ==
    \A i \in 1..Len(old) :
        /\ Get(new, old[i].name) # 0
        /\ new[Get(new, old[i].name)].kind = old[i].kind
        /\ old[i].kind = "StaticTemplateFolder" =>
              KindsKept(old[i].lookup, new[Get(new, old[i].name)].lookup)

\* C14: an add_template call, returning or raising, keeps every registered
\* name with its kind, in the lookup and in the lookups of its folders; a
\* template of another kind than the one registered under its name raises
\* OverrideTemplateNotAllowed and leaves the lookup as it was.
C14_KindNeverChanges ==
    [][/\ KindsKept(templates, templates')
       /\ \A t \in Templates :
             /\ template' = Some(t)
             /\ calls' = calls + 1
             /\ Get(templates, t.name) # 0
             /\ templates[Get(templates, t.name)].kind # t.kind
             => raised' = "OverrideTemplateNotAllowed" /\ templates' = templates]_vars

C14_Witness ==
    /\ calls = MaxCalls
    /\ raised = "OverrideTemplateNotAllowed"
    /\ template # None
    /\ template[1].kind = "StaticTemplateFolder"
    /\ Get(templates, template[1].name) # 0
    /\ templates[Get(templates, template[1].name)].kind = "StaticTemplateFile"
    /\ templates[Get(templates, template[1].name)].data = 1

\* C15: an HtmlTemplate added under a name of an HTML template of the default
\* theme has the outcome its version and the default theme's version decide,
\* whatever was added before: warned when older, UnsupportedTemplateVersion
\* when newer, accepted silently otherwise (also when either has no version).
C15_ComparedWithDefault ==
    \A i \in 1..Len(DefaultTheme) :
        /\ template # None
        /\ template[1].kind = "HtmlTemplate"
        /\ DefaultTheme[i].kind = "HtmlTemplate"
        /\ DefaultTheme[i].name = template[1].name
        => LET d == DefaultTheme[i].version
               v == template[1].version
               both == d # -1 /\ v # -1
           IN /\ raised = (IF both /\ v > d THEN "UnsupportedTemplateVersion" ELSE "none")
              /\ warned = (IF both /\ v < d THEN <<template[1].name>> ELSE <<>>)

\* the render function of a _multiline call run on the state st
RenderOf(v, st) ==
    Do(MultilineArgs(v).func, colorizer,
       [pyval |-> MultilineArgs(v).pyval, prefix |-> MultilineArgs(v).prefix,
        suffix |-> MultilineArgs(v).suffix], st)

\* C16: a _multiline call on a state: when the render with breaks disallowed
\* succeeds its fragments are the outcome; when it fails with _Linebreak and
\* the state's flag was true, the outcome is that of the render run with
\* breaks allowed on the state as it was before the call, so the fragments
\* are those present before followed by the multi-line render; when the flag
\* was false the signal propagates with the state of the failed attempt.
C16_CompactThenMultiline ==
    [][op'.name = "_multiline" /\ ops' = ops + 1 =>
          LET compact == RenderOf(op'.pyval, [layout EXCEPT !.linebreakok = FALSE])
          IN /\ compact.exc = "none" =>
                   layout' = [compact EXCEPT !.linebreakok = layout.linebreakok]
             /\ compact.exc = "_Linebreak" /\ layout.linebreakok =>
                   /\ layout' = RenderOf(op'.pyval, layout)
                   /\ Len(layout'.result) >= Len(layout.result)
                   /\ SubSeq(layout'.result, 1, Len(layout.result)) = layout.result
             /\ compact.exc = "_Linebreak" /\ ~layout.linebreakok => layout' = compact
             /\ compact.exc = "_Maxlines" => layout' = compact]_vars

C16_Witness ==
    /\ op.name = "_multiline"
    /\ ops = MaxOps
    /\ layout.exc = "none"
    /\ layout.linebreakok
    /\ layout.result[1] = TextNode(<<"a", "b">>)
    /\ Holds(layout.result, "NEWLINE")
    /\ Holds(layout.result, "UNKNOWN_REPR")
    /\ Count(layout.result, "WORD_BREAK_OPPORTUNITY") = 2

\* C17: after restore(m) the state is the state of which the snapshot m was
\* taken: same fragment list, column, line number, break flag and score.
C17_RestoreToMark ==
    op.name = "restore" =>
        /\ layout.result = marked[1].at.result
        /\ layout.charpos = marked[1].at.charpos
        /\ layout.lineno = marked[1].at.lineno
        /\ layout.linebreakok = marked[1].at.linebreakok
        /\ layout.score = marked[1].at.score
        /\ layout = marked[1].at

C17_Witness ==
    /\ op.name = "restore"
    /\ marked[1].ops = 1
    /\ ops = MaxOps
    /\ marked[1].at.result # <<>>
    /\ marked[1].at.charpos > 0
    /\ layout = marked[1].at

\* C18: with linebreakok=True in the configuration no _Linebreak leaves the
\* rendering of a value (the try block of colorize ends normally or with
\* _Maxlines, or with the exception of a failed call), and when the rendering
\* of a container (a _multiline call) returns normally state.linebreakok is
\* the flag the state was entered with.
C18_LinebreakNeverReachesEntry ==
    \A t \in Threads :
        pc[t] = "tried" =>
            /\ self[t].linebreakok => state[t].exc # "_Linebreak"
            /\ IsContainer(pyval[t]) /\ state[t].exc = "none" =>
                  state[t].linebreakok = self[t].linebreakok

C18_Witness ==
    \E t \in Threads :
        /\ pc[t] = "tried"
        /\ self[t].linebreakok
        /\ pyval[t] = IntList(3)
        /\ state[t].exc = "none"
        /\ state[t].linebreakok
        /\ Count(state[t].result, "NEWLINE") = 2

\* the fragments a call appended to the result
Added(old, new) == SubSeq(new.result, Len(old.result) + 1, Len(new.result))

\* the column after the fragment last appended by a call that started a line
ColumnOfLast(added) ==
    IF IsShared(added[Len(added)], "LINEWRAP") THEN 0
    ELSE Len(added[Len(added)].text)

\* C19: an _output call that needs a new line (the text holds a newline, or
\* its first line does not fit the width): when lineno + 1 > maxlines at the
\* first new line the call raises _Maxlines, also with breaks disallowed;
\* otherwise with breaks disallowed it raises _Linebreak.  A call that raises
\* either signal ends with the state of the last segment it completed: the
\* last fragment is not a newline, lineno counts the newlines appended before
\* the failing check, and charpos is the column that segment left.
C19_MaxlinesBeforeLinebreak ==
    [][op'.name = "_output" /\ ops' = ops + 1 =>
          LET segments == SplitNL(op'.s)
              fits == Fits(colorizer, layout, Len(segments[1]), op'.link)
              Need == Len(segments) > 1 \/ ~fits
              added == Added(layout, layout')
              n == Count(added, "NEWLINE")
          IN /\ Need /\ layout.lineno + 1 > colorizer.maxlines =>
                    layout'.exc = "_Maxlines"
             /\ Need /\ layout.lineno + 1 <= colorizer.maxlines /\ ~layout.linebreakok =>
                    layout'.exc = "_Linebreak"
             /\ ~Need => layout'.exc = "none"
             /\ layout'.exc = "_Linebreak" => layout'.lineno + 1 <= colorizer.maxlines
             /\ layout'.exc = "_Maxlines" => layout'.lineno + 1 > colorizer.maxlines
             /\ layout'.exc \in Signals =>
                    /\ Len(added) >= 1
                    /\ ~IsShared(added[Len(added)], "NEWLINE")
                    /\ layout'.lineno = layout.lineno + n
                    /\ layout'.linebreakok = layout.linebreakok
                    /\ layout'.charpos =
                           IF n = 0
                           THEN layout.charpos + (IF fits THEN Len(segments[1]) ELSE 0)
                           ELSE ColumnOfLast(added)]_vars

\* a call that needs a new line with both the line count used up and breaks
\* disallowed
C19_Witness ==
    /\ op.name = "_output"
    /\ layout.exc = "_Maxlines"
    /\ ~layout.linebreakok
    /\ layout.lineno = colorizer.maxlines
    /\ layout.result # <<>>

\* every LINEWRAP of frags[i..] comes at column W, the column being cur
\* before frags[i]
RECURSIVE WrapsFull(_, _, _, _)
WrapsFull(frags, i, cur, W) ==
    IF i > Len(frags) THEN TRUE
    ELSE IF IsShared(frags[i], "LINEWRAP")
    THEN cur = W /\ WrapsFull(frags, i + 1, cur, W)
    ELSE IF IsShared(frags[i], "NEWLINE") THEN WrapsFull(frags, i + 1, 0, W)
    ELSE WrapsFull(frags, i + 1, cur + Len(frags[i].text), W)

\* C20: an _output call of a text without newline that is not a link, at a
\* column charpos <= linelen with linelen >= 1 and breaks allowed, that
\* returns normally (enough lines are left): the texts of the fragments it
\* appended, LINEWRAP and NEWLINE left out, concatenate to the text, and at
\* each LINEWRAP the line holds exactly linelen characters.
C20_WrapKeepsText ==
    [][/\ op'.name = "_output" /\ ops' = ops + 1
       /\ \A i \in 1..Len(op'.s) : op'.s[i] # NL
       /\ ~op'.link
       /\ colorizer.linelen # NoLimit /\ colorizer.linelen >= 1
       /\ layout.charpos <= colorizer.linelen
       /\ layout.linebreakok
       /\ layout'.exc = "none"
       => LET added == Added(layout, layout')
          IN /\ PlainText(added) = op'.s
             /\ \A i \in 1..Len(added) :
                    added[i].kind = "shared" =>
                        IsShared(added[i], "LINEWRAP") \/ IsShared(added[i], "NEWLINE")
             /\ WrapsFull(added, 1, layout.charpos, colorizer.linelen)]_vars

\* the six digits emitted at a column > 0 and wrapped twice
C20_Witness ==
    /\ op.name = "_output" /\ ~op.link
    /\ Len(op.s) = MaxWidth + 1
    /\ layout.exc = "none"
    /\ marked # None
    /\ marked[1].ops + 1 = ops
    /\ marked[1].at.charpos > 0
    /\ marked[1].at.charpos <= colorizer.linelen
    /\ marked[1].at.linebreakok
    /\ Count(Added(marked[1].at, layout), "LINEWRAP") = 2

\* C21: an _output call with link=True and a text without newline appends
\* exactly one link fragment holding the whole text and advances charpos by
\* the length of the text, whatever the width and the column: the call raises
\* nothing, appends no LINEWRAP and no NEWLINE, and leaves lineno alone.
C21_LinkNeverSplit ==
    [][/\ op'.name = "_output" /\ ops' = ops + 1
       /\ op'.link
       /\ \A i \in 1..Len(op'.s) : op'.s[i] # NL
       => /\ layout'.exc = "none"
          /\ Added(layout, layout') = <<obj_reference(op'.s)>>
          /\ layout'.charpos = layout.charpos + Len(op'.s)
          /\ layout'.lineno = layout.lineno]_vars

\* a link emitted at a column from which it does not fit the width
C21_Witness ==
    /\ op.name = "_output" /\ op.link
    /\ layout.exc = "none"
    /\ colorizer.linelen # NoLimit
    /\ marked # None
    /\ marked[1].ops + 1 = ops
    /\ marked[1].at.charpos > 0
    /\ marked[1].at.charpos + Len(op.s) > colorizer.linelen
    /\ layout.result = Append(marked[1].at.result, obj_reference(op.s))

\* the number of characters of the fragments of doc after its last NEWLINE,
\* LINEWRAP left out; the unknown marker counts with the text found in heap
RECURSIVE LineChars(_, _)
LineChars(doc, heap) ==
    IF doc = <<>> THEN 0
    ELSE LET last == doc[Len(doc)]
             front == SubSeq(doc, 1, Len(doc) - 1)
         IN IF IsShared(last, "NEWLINE") THEN 0
            ELSE IF IsShared(last, "LINEWRAP") THEN LineChars(front, heap)
            ELSE IF last.kind = "shared"
            THEN (IF last.tag \in DOMAIN heap THEN Len(heap[last.tag]) ELSE 0)
                 + LineChars(front, heap)
            ELSE Len(last.text) + LineChars(front, heap)

\* C22: when the rendering of a value has ended (normally or with a signal),
\* state.charpos is the number of characters of the fragments of the current
\* line and state.lineno is 1 + the number of NEWLINE fragments.
C22_PositionMatchesFragments ==
    \A t \in Threads :
        pc[t] = "tried" /\ state[t].exc \in {"none"} \cup Signals =>
            /\ state[t].charpos = LineChars(state[t].result, shared)
            /\ state[t].lineno = 1 + Count(state[t].result, "NEWLINE")

\* C23: every _output call that is entered ends, by returning or by raising
\* _Maxlines or _Linebreak, whatever the text, the width (0 included) and the
\* column it starts at (beyond the width included); it ends in the state of
\* _output taken as a whole, and runs at most one iteration per segment of
\* the text plus one per line left.
C23_OutputTerminates ==
    /\ (op.name = "loop") ~> (op.name \in {"returned", "raised"})
    /\ [](op.name = "raised" => layout.exc \in Signals)
    /\ [](op.name \in {"returned", "raised"} =>
            layout = _output(colorizer, op.s, op.css_class, marked[1].at, op.link))
    /\ [](op.name = "loop" =>
            ops <= Len(SplitNL(op.s)) + (colorizer.maxlines - marked[1].at.lineno))

\* width 0: the whole text is put back in the list at every iteration, until
\* the line count stops the call
C23_Witness ==
    /\ op.name = "raised"
    /\ colorizer.linelen = 0
    /\ marked[1].at.linebreakok
    /\ layout.exc = "_Maxlines"
    /\ Len(op.segments) = MaxLines + 1
    /\ op.segments[Len(op.segments)] = op.s

\* C24: state.lineno never exceeds maxlines; the rendering emits at most
\* maxlines - 1 NEWLINE fragments, and the returned document holds at most
\* maxlines of them, the last one being the NEWLINE that colorize puts before
\* the ellipsis of a truncated rendering when breaks are allowed.
C24_LinenoWithinMaxlines ==
    \A t \in Threads :
        /\ pc[t] \notin {"idle"} => state[t].lineno <= self[t].maxlines
        /\ pc[t] = "tried" =>
              Count(state[t].result, "NEWLINE") <= self[t].maxlines - 1
        /\ Returned(t) =>
              /\ Count(Document(t), "NEWLINE") <= self[t].maxlines
              /\ Count(Document(t), "NEWLINE") = self[t].maxlines =>
                    /\ ~ret[t][1].is_complete
                    /\ self[t].linebreakok
                    /\ Len(Document(t)) >= 2
                    /\ IsShared(Document(t)[Len(Document(t)) - 1], "NEWLINE")
                    /\ EndsWith(Document(t), "ELLIPSIS")

\* a truncated rendering returned with maxlines NEWLINE fragments
C24_Witness ==
    \E t \in Threads :
        /\ Returned(t)
        /\ self[t].maxlines = MaxLines
        /\ Count(Document(t), "NEWLINE") = MaxLines

\* C25: when the rendering of a value ends with _Maxlines or _Linebreak the
\* fragment list is not empty, so state.result[-1] in the handler of colorize
\* succeeds: no IndexError leaves colorize.
C25_ResultNonEmptyAtSignal ==
    \A t \in Threads :
        /\ pc[t] = "tried" /\ state[t].exc \in Signals => state[t].result # <<>>
        /\ pc[t] = "raised" => state[t].exc # "IndexError"

\* a container whose rendering ends with _Linebreak in no-break mode, the
\* branch that reads state.result[-1]
C25_Witness ==
    \E t \in Threads :
        /\ pc[t] = "tried"
        /\ ~self[t].linebreakok
        /\ state[t].exc = "_Linebreak"
        /\ IsContainer(pyval[t])
        /\ IsShared(state[t].result[Len(state[t].result)], "LINEWRAP")

\* a value tree without ast nodes: scalars, and lists, tuples and dicts of
\* such trees
RECURSIVE IsPlainTree(_)
IsPlainTree(v) ==
    IF v.k \in {"list", "tuple"} THEN \A i \in 1..Len(v.elts) : IsPlainTree(v.elts[i])
    ELSE IF v.k = "dict"
    THEN \A i \in 1..Len(v.items) : IsPlainTree(v.items[i][1]) /\ IsPlainTree(v.items[i][2])
    ELSE ~IsAst(v)

RECURSIVE SumOver(_, _, _)
SumOver(F(_), vs, i) == IF i > Len(vs) THEN 0 ELSE F(vs[i]) + SumOver(F, vs, i + 1)

\* what the values of a plain tree are worth: 1 for each value, less 100 for
\* a value whose repr() raises, less 5 for a value whose repr matches
\* GENERIC_OBJECT_RE
RECURSIVE TreeScore(_)
TreeScore(v) ==
    IF v.k \in {"list", "tuple"} THEN 1 + SumOver(TreeScore, v.elts, 1)
    ELSE IF v.k = "dict"
    THEN 1 + SumOver(LAMBDA it : TreeScore(it[1]) + TreeScore(it[2]), v.items, 1)
    ELSE IF v.k = "object"
    THEN IF v.repr = None THEN 1 - 100
         ELSE IF GenericSplits(v.repr[1]) # {} THEN 1 - 5 ELSE 1
    ELSE 1

\* the score of the rendering of v with no width limit and breaks allowed
ScoreRef(v) ==
    Do("_colorize", [linelen |-> NoLimit, maxlines |-> MaxLines, linebreakok |-> TRUE],
       [pyval |-> v], ColorizerState)

\* C26: when the rendering of a value completes, state.score is 1 for each
\* value of the tree visited by _colorize, less 100 for each value whose
\* repr() raises and 5 for each generic-object match, whatever the width, the
\* line count and the break policy; for a value with ast nodes it is the score
\* of the rendering without width limit.
C26_ScoreCountsValuesOnce ==
    \A t \in Threads :
        pc[t] = "tried" /\ state[t].exc = "none" =>
            /\ IsPlainTree(pyval[t]) => state[t].score = TreeScore(pyval[t])
            /\ ScoreRef(pyval[t]).exc = "none" =>
                  state[t].score = ScoreRef(pyval[t]).score

\* a nested list rendered over several lines: the compact attempts of the
\* outer and of an inner list were abandoned
C26_Witness ==
    \E t \in Threads :
        /\ pc[t] = "tried" /\ state[t].exc = "none"
        /\ pyval[t] = PyList(<<X_raise, O_nl>>)
        /\ Count(state[t].result, "NEWLINE") >= 1
        /\ state[t].score = 3 - 100

\* C27: with line breaks allowed and no width limit (the single-line text
\* f(a, k=1) fits any line count >= 1), the call f(a, k=1) is rendered
\* completely and on one line: no NEWLINE fragment between the positional and
\* the keyword arguments.
C27_CallOnOneLine ==
    \A t \in Threads :
        /\ pc[t] = "tried"
        /\ pyval[t] = Call_f
        /\ self[t].linebreakok
        /\ self[t].linelen = NoLimit
        => /\ state[t].exc = "none"
           /\ ~Holds(state[t].result, "NEWLINE")

\* the characters of all fragments of doc in order, the shared nodes read
\* with their text in heap
RECURSIVE FullText(_, _)
FullText(doc, heap) ==
    IF doc = <<>> THEN <<>>
    ELSE (IF Head(doc).kind = "shared"
          THEN (IF Head(doc).tag \in DOMAIN heap THEN heap[Head(doc).tag] ELSE <<>>)
          ELSE Head(doc).text)
         \o FullText(Tail(doc), heap)

DropLinewrap(r) == IF EndsWith(r, "LINEWRAP") THEN SubSeq(r, 1, Len(r) - 1) ELSE r

\* C28: on a no-break truncation the handler of colorize leaves the text of
\* the rendering without its trailing LINEWRAP and without its last
\* min(3, length) characters, followed by the ellipsis: _trim_result removes
\* characters from the end only and leaves the earlier text as it was.
C28_TrimRemovesFromEnd ==
    [][\A t \in Threads :
          /\ pc[t] = "tried" /\ pc'[t] = "check"
          /\ state[t].exc \in Signals
          /\ ~self[t].linebreakok
          => LET before == FullText(DropLinewrap(state[t].result), shared)
                 after == FullText(state'[t].result, shared')
             IN /\ state'[t].result # <<>>
                /\ EndsWith(state'[t].result, "ELLIPSIS")
                /\ after = PyDropLast(before, Min2(3, Len(before))) \o shared'.ELLIPSIS
                /\ ~Holds(state'[t].result, "LINEWRAP")]_vars

\* the characters of the fragments of doc tagged re-group, in order
RECURSIVE GroupChars(_)
GroupChars(doc) ==
    IF doc = <<>> THEN <<>>
    ELSE (IF Head(doc).kind = "inline" /\ Head(doc).tag = RE_GROUP_TAG
          THEN Head(doc).text ELSE <<>>)
         \o GroupChars(Tail(doc))

\* every ( and [ of chars[i..] is closed later by its own ) or ], the inner
\* one first; stack holds the open ones
RECURSIVE Nested(_, _, _)
Nested(chars, i, stack) ==
    IF i > Len(chars) THEN stack = <<>>
    ELSE IF chars[i] \in {"(", "["} THEN Nested(chars, i + 1, <<chars[i]>> \o stack)
    ELSE IF chars[i] = ")"
    THEN stack # <<>> /\ Head(stack) = "(" /\ Nested(chars, i + 1, Tail(stack))
    ELSE IF chars[i] = "]"
    THEN stack # <<>> /\ Head(stack) = "[" /\ Nested(chars, i + 1, Tail(stack))
    ELSE Nested(chars, i + 1, stack)

\* C29: in a completed rendering of a parsed tree the group tokens are
\* properly nested: each opening token is closed later by its own closing
\* token; and the rendering is that of the same tree with noparen=True,
\* wrapped in ( and ) exactly when the tree has more than one element and
\* noparen is False.
C29_RegexTokensNested ==
    op.name = "_colorize_re_tree" /\ layout.exc = "none" =>
        LET bare == _colorize_re_tree(
                        [linelen |-> NoLimit, maxlines |-> 1, linebreakok |-> FALSE],
                        ReTrees[op.tree], ColorizerState, TRUE, op.groups)
            text == PlainText(layout.result)
        IN /\ Nested(GroupChars(layout.result), 1, <<>>)
           /\ bare.exc = "none"
           /\ text = IF Len(ReTrees[op.tree]) > 1 /\ ~op.noparen
                     THEN <<"(">> \o PlainText(bare.result) \o <<")">>
                     ELSE PlainText(bare.result)

\* (?<!(?:\(.)*a) with a width of MaxWidth - 2: three tokens open, rendered
\* over several lines, with the wrapping parenthesis of the repeated pair
C29_Witness ==
    /\ op.name = "_colorize_re_tree" /\ layout.exc = "none"
    /\ ~op.noparen
    /\ Len(ReTrees[op.tree]) = 2
    /\ ReTrees[op.tree][1].op = "ASSERT_NOT"
    /\ ReTrees[op.tree][1].args.item[1].op = "MAX_REPEAT"
    /\ Len(ReTrees[op.tree][1].args.item[1].args.item) = 2
    /\ colorizer.linelen # NoLimit
    /\ Holds(layout.result, "LINEWRAP")

\* C30: an add_template call that raises leaves the lookup holding exactly
\* the templates it held before the call, the lookups of its folders
\* included.
C30_FailedAddLeavesLookup ==
    [][calls' = calls + 1 /\ raised' # "none" => templates' = templates]_vars

====
